---- MODULE Spec2Model ----
(***************************************************************************)
(* Model of the MOT history analysis of car-check-ai                       *)
(* (backend/app/services/mot/analyzer.py) and of its emission zone         *)
(* calculator (backend/app/services/check/ulez.py).                        *)
(*                                                                         *)
(* MOTAnalyzer is stateless: analyze() is a pure function of the MOT API   *)
(* response, and calculate_ulez_compliance() is a pure function of the     *)
(* registry record.  The state machine therefore consists of the inputs    *)
(* (the list of test records and the registry record the caller passes),   *)
(* a program counter, and the values returned by the call.  Init draws     *)
(* the inputs from bounded sets, the actions are the calls.                *)
(***************************************************************************)
EXTENDS Integers, Sequences, FiniteSets, TLC

VARIABLES
    has_data,           \* FALSE: the caller passes mot_data = None
    mot_tests,          \* vehicle["motTests"], in the order the caller gives
    pc,                 \* "ready" | "analyzed" | "raised" | "detected" |
                        \* "scored" | "patterns" | "ulez" | "stats" | "checked"
    clocking_analysis,  \* result["clocking_analysis"]
    condition_score,    \* result["condition_score"]: <<>> is None, <<n>> is n
    mileage_timeline,   \* result["mileage_timeline"]
    failure_patterns,   \* result["failure_patterns"]
    vehicle_data,       \* the registry record given to the zone calculator
    ulez_result,        \* the dict calculate_ulez_compliance returns
    today,              \* the day the system clock shows (date.today())
    vehicle_stats,      \* the dict calculate_vehicle_stats returns
    registration,       \* the registration run_free_check is called with
    dvla_fetch,         \* what DVLAClient.get_vehicle does on this call
    mot_fetch,          \* what MOTClient.get_mot_history does on this call
    response            \* the FreeCheckResponse run_free_check returns

vars == <<has_data, mot_tests, pc, clocking_analysis, condition_score,
          mileage_timeline, failure_patterns, vehicle_data, ulez_result,
          today, vehicle_stats, registration, dvla_fetch, mot_fetch, response>>

\* the state of the clock and of the stats call, and of the free check
stats_vars == <<today, vehicle_stats>>
check_vars == <<registration, dvla_fetch, mot_fetch, response>>

(***************************************************************************)
(* Bounds of the model.                                                    *)
(***************************************************************************)
MaxTests == 3           \* longest motTests list of the mileage histories
MaxScoreTests == 4      \* longest motTests list of the defect histories
MaxMileageTests == 2    \* longest motTests list of the mileage-vs-age histories
MaxPatternTests == 3    \* longest motTests list of the defect-text histories
MaxLabelLen == 2        \* longest euroStatus label
MaxMonotoneTests == 4   \* longest motTests list of the histories a defect is added to
MaxMalformedTests == 2  \* longest motTests list of the histories with malformed records
MaxReadings == 2        \* longest mileage timeline given to the stats
MaxClockDays == 2       \* days that pass on the clock

(***************************************************************************)
(* Program constants.                                                      *)
(***************************************************************************)
UK_AVG_ANNUAL_MILEAGE == 7400
MAX_REASONABLE_ANNUAL_MILEAGE == 30000

(***************************************************************************)
(* Strings.  A completedDate is the text  YYYY<sep>MM<sep>DD  with         *)
(* zero-padded fields; it is kept as its fields and the character code of  *)
(* the separator (45 is "-", 46 is ".").  An odometerValue is None or a    *)
(* string kept as the sequence of its characters: 0..9 are the digits, 10  *)
(* is a letter.                                                            *)
(***************************************************************************)
Hyphen == 45

Date(y, m, d, sep) == [y |-> y, m |-> m, d |-> d, sep |-> sep]

NoneValue == [isNone |-> TRUE, chars |-> <<>>]
Str(chars) == [isNone |-> FALSE, chars |-> chars]

\* Python's str < str on two completedDate strings: character by character,
\* i.e. the year digits, then the separator, then month, (separator), day.
DateStrKey(dt) == <<dt.y, dt.sep, dt.m, dt.d>>

RECURSIVE LexLess(_, _)
LexLess(a, b) ==
    IF a = <<>> \/ b = <<>> THEN a = <<>> /\ b # <<>>
    ELSE IF Head(a) # Head(b) THEN Head(a) < Head(b)
    ELSE LexLess(Tail(a), Tail(b))

\* sorted(tests, key=lambda t: t.get("completedDate", "")): a stable sort,
\* a record goes behind every record whose key is not greater than its own.
RECURSIVE InsertByDate(_, _)
InsertByDate(sorted, t) ==
    IF sorted = <<>> THEN <<t>>
    ELSE IF LexLess(DateStrKey(t.completedDate),
                    DateStrKey(sorted[Len(sorted)].completedDate))
         THEN Append(InsertByDate(SubSeq(sorted, 1, Len(sorted) - 1), t),
                     sorted[Len(sorted)])
         ELSE Append(sorted, t)

RECURSIVE SortedTests(_)
SortedTests(tests) ==
    IF tests = <<>> THEN <<>>
    ELSE InsertByDate(SortedTests(SubSeq(tests, 1, Len(tests) - 1)),
                      tests[Len(tests)])

(***************************************************************************)
(* datetime.strptime(s[:10], "%Y-%m-%d") and date arithmetic.              *)
(***************************************************************************)
IsLeap(y) == (y % 4 = 0) /\ ((y % 100 # 0) \/ (y % 400 = 0))

DaysInMonth(y, m) ==
    IF m = 2 THEN (IF IsLeap(y) THEN 29 ELSE 28)
    ELSE IF m \in {4, 6, 9, 11} THEN 30 ELSE 31

RECURSIVE DaysBeforeMonth(_, _)
DaysBeforeMonth(y, m) ==
    IF m <= 1 THEN 0 ELSE DaysBeforeMonth(y, m - 1) + DaysInMonth(y, m - 1)

\* strptime succeeds: hyphen separators and a date of the calendar
Parses(dt) ==
    /\ dt.sep = Hyphen
    /\ dt.y \in 1..9999
    /\ dt.m \in 1..12
    /\ dt.d \in 1..DaysInMonth(dt.y, dt.m)

\* datetime.toordinal(): days since 0001-01-01
Ordinal(dt) ==
    LET y1 == dt.y - 1
    IN  365 * y1 + (y1 \div 4) - (y1 \div 100) + (y1 \div 400)
        + DaysBeforeMonth(dt.y, dt.m) + dt.d

\* (date_b - date_a).days
DaysBetween(a, b) == Ordinal(b) - Ordinal(a)

Abs(n) == IF n < 0 THEN -n ELSE n

(***************************************************************************)
(* int(odometer)                                                           *)
(***************************************************************************)
\* int(s) succeeds on a non-empty string of digits, raises ValueError else
IsInt(chars) == chars # <<>> /\ \A i \in 1..Len(chars) : chars[i] \in 0..9

RECURSIVE IntOf(_)
IntOf(chars) ==
    IF chars = <<>> THEN 0
    ELSE 10 * IntOf(SubSeq(chars, 1, Len(chars) - 1)) + chars[Len(chars)]

\* variant: only None is skipped, the ValueError of int() is not handled
HasReadingNotNone(test) == ~test.odometerValue.isNone

\* the test passes "if odometer is None: continue" and the try block
HasReading(test) ==
    ~test.odometerValue.isNone /\ IsInt(test.odometerValue.chars)

(***************************************************************************)
(* _detect_clocking                                                        *)
(***************************************************************************)
\* lines 91-103: one reading per test with a parseable odometer
RECURSIVE Readings(_)
Readings(tests) ==
    IF tests = <<>> THEN <<>>
    ELSE LET t == Head(tests)
         IN  IF HasReading(t)
             THEN <<[date |-> t.completedDate,
                     miles |-> IntOf(t.odometerValue.chars),
                     test_result |-> t.testResult]>> \o Readings(Tail(tests))
             ELSE Readings(Tail(tests))

\* lines 123-128
DaysApart(current, next_r) ==
    IF Parses(current.date) /\ Parses(next_r.date)
    THEN Abs(DaysBetween(current.date, next_r.date))
    ELSE 999

\* variant: the tolerance window ends before the fourteenth day
DropToleratedStrict(drop, days_apart) == drop < 200 /\ days_apart < 14

\* line 130: the fail/retest tolerance
DropTolerated(drop, days_apart) == drop < 200 /\ days_apart <= 14

\* lines 114-143, the loop from pair i on
RECURSIVE DropFlags(_, _)
DropFlags(readings, i) ==
    IF i > Len(readings) - 1 THEN <<>>
    ELSE LET current == readings[i]
             next_r == readings[i + 1]
             drop == current.miles - next_r.miles
         IN  IF next_r.miles < current.miles
                /\ ~DropTolerated(drop, DaysApart(current, next_r))
             THEN <<[type |-> "mileage_drop", severity |-> "high",
                     from_date |-> current.date, to_date |-> next_r.date,
                     drop_amount |-> drop]>> \o DropFlags(readings, i + 1)
             ELSE DropFlags(readings, i + 1)

\* variant: a rate of exactly the limit is flagged too
RateAtLeast(delta, days, limit) == delta * 1461 >= limit * 4 * days

\* line 160-161:  (miles_b - miles_a) / (days / 365.25) > 30000, with days > 0,
\* as the exact comparison  delta * 365.25 > 30000 * days  scaled by 4.  The
\* float quotient decides the same way on every pair less than 6331 days
\* apart (there 520,000 miles give 30000.000000000004).
RateAbove(delta, days, limit) == delta * 1461 > limit * 4 * days

\* lines 146-171, the loop from pair i on
RECURSIVE JumpFlags(_, _)
JumpFlags(readings, i) ==
    IF i > Len(readings) - 1 THEN <<>>
    ELSE LET current == readings[i]
             next_r == readings[i + 1]
         IN  IF /\ Parses(current.date) /\ Parses(next_r.date)
                /\ DaysBetween(current.date, next_r.date) > 0
                /\ RateAbove(next_r.miles - current.miles,
                             DaysBetween(current.date, next_r.date),
                             MAX_REASONABLE_ANNUAL_MILEAGE)
             THEN <<[type |-> "improbable_jump", severity |-> "medium",
                     from_date |-> current.date, to_date |-> next_r.date]>>
                  \o JumpFlags(readings, i + 1)
             ELSE JumpFlags(readings, i + 1)

\* line 182:  avg_annual < UK_AVG_ANNUAL_MILEAGE * 0.3  (7400 * 0.3 is the
\* float 2220.0), as the exact comparison  delta * 365.25 < 7400 * 0.3 * days
\* scaled by 2 * 10
AvgBelowNorm(delta, days) ==
    delta * 1461 * 5 < UK_AVG_ANNUAL_MILEAGE * 3 * 2 * days

\* variant: the 10,000 mile floor is tested on the first reading
LowFlagsFirst(readings) ==
    LET first == readings[1]
        last == readings[Len(readings)]
    IN  IF /\ Len(readings) >= 2
           /\ Parses(first.date) /\ Parses(last.date)
           /\ DaysBetween(first.date, last.date) > 0
           /\ AvgBelowNorm(last.miles - first.miles,
                           DaysBetween(first.date, last.date))
           /\ first.miles > 10000
        THEN <<[type |-> "suspiciously_low", severity |-> "low"]>>
        ELSE <<>>

\* variant: a last reading of exactly 10,000 miles is flagged too
LowFlagsAtLeast(readings) ==
    LET first == readings[1]
        last == readings[Len(readings)]
    IN  IF /\ Len(readings) >= 2
           /\ Parses(first.date) /\ Parses(last.date)
           /\ DaysBetween(first.date, last.date) > 0
           /\ AvgBelowNorm(last.miles - first.miles,
                           DaysBetween(first.date, last.date))
           /\ last.miles >= 10000
        THEN <<[type |-> "suspiciously_low", severity |-> "low"]>>
        ELSE <<>>

\* lines 174-192
LowFlags(readings) ==
    LET first == readings[1]
        last == readings[Len(readings)]
    IN  IF /\ Len(readings) >= 2
           /\ Parses(first.date) /\ Parses(last.date)
           /\ DaysBetween(first.date, last.date) > 0
           /\ AvgBelowNorm(last.miles - first.miles,
                           DaysBetween(first.date, last.date))
           /\ last.miles > 10000
        THEN <<[type |-> "suspiciously_low", severity |-> "low"]>>
        ELSE <<>>

WithSeverity(flags, sev) == {i \in 1..Len(flags) : flags[i].severity = sev}

\* variant: a single medium flag already gives medium risk
RiskLevelAnyMedium(flags) ==
    IF WithSeverity(flags, "high") # {} THEN "high"
    ELSE IF Cardinality(WithSeverity(flags, "medium")) >= 1 THEN "medium"
    ELSE IF WithSeverity(flags, "low") # {} THEN "low"
    ELSE "none"

\* lines 194-209
RiskLevel(flags) ==
    IF WithSeverity(flags, "high") # {} THEN "high"
    ELSE IF Cardinality(WithSeverity(flags, "medium")) >= 2 THEN "medium"
    ELSE IF WithSeverity(flags, "medium") # {}
            \/ WithSeverity(flags, "low") # {} THEN "low"
    ELSE "none"

\* variant: two medium flags already count as clocked
ClockedFromMedium(flags) ==
    WithSeverity(flags, "high") # {}
    \/ Cardinality(WithSeverity(flags, "medium")) >= 2

Clocked(flags) == WithSeverity(flags, "high") # {}

\* lines 66-72 and 105-111: the insufficient-evidence result
EmptyClocking == [clocked |-> FALSE, risk_level |-> "unknown", flags |-> <<>>]

DetectClocking(tests) ==
    LET readings == Readings(tests)
    IN  IF Len(readings) < 2 THEN EmptyClocking
        ELSE LET flags == DropFlags(readings, 1) \o JumpFlags(readings, 1)
                          \o LowFlags(readings)
             IN  [clocked |-> Clocked(flags),
                  risk_level |-> RiskLevel(flags),
                  flags |-> flags]

(***************************************************************************)
(* _calculate_condition_score.  The score is kept in tenths of a point,    *)
(* which holds every sum of the weights exactly.                           *)
(***************************************************************************)
\* str.upper() on the type and result strings of the inputs
Upper(s) ==
    CASE s = "advisory" -> "ADVISORY"
      [] s = "major" -> "MAJOR"
      [] s = "failed" -> "FAILED"
      [] s = "passed" -> "PASSED"
      [] OTHER -> s

\* variant: the weights stored as unsigned penalty points
SeverityWeightUnsigned(severity) ==
    CASE severity = "DANGEROUS" -> 25
      [] severity = "MAJOR" -> 15
      [] severity = "MINOR" -> 5
      [] severity = "ADVISORY" -> 3
      [] OTHER -> 0

\* SEVERITY_WEIGHTS.get(severity, 0), lines 7-12 and 278
SeverityWeight(severity) ==
    CASE severity = "DANGEROUS" -> -25
      [] severity = "MAJOR" -> -15
      [] severity = "MINOR" -> -5
      [] severity = "ADVISORY" -> -3
      [] OTHER -> 0

\* variant: the weight counted from the oldest test (reverse_index 0 = oldest)
RecencyWeightFromOldest10(num_tests, i) ==
    LET reverse_index == i - 1
    IN  IF reverse_index = 0 THEN 10
        ELSE IF reverse_index = 1 THEN 8
        ELSE IF reverse_index = 2 THEN 6
        ELSE 3

\* lines 262-270, in tenths; i is the index of the test, oldest first
RecencyWeight10(num_tests, i) ==
    LET reverse_index == num_tests - i
    IN  IF reverse_index = 0 THEN 10
        ELSE IF reverse_index = 1 THEN 8
        ELSE IF reverse_index = 2 THEN 6
        ELSE 3

\* lines 272-274 (and 327): defects, or rfrAndComments when defects is empty
DefectsOf(test) ==
    IF test.defects # <<>> THEN test.defects ELSE test.rfrAndComments

RECURSIVE SumWeights(_)
SumWeights(defects) ==
    IF defects = <<>> THEN 0
    ELSE SeverityWeight(Upper(Head(defects).type)) + SumWeights(Tail(defects))

\* lines 261-279: the sum of weight * recency_weight over tests i..num_tests
RECURSIVE DefectDeduction10(_, _)
DefectDeduction10(tests, i) ==
    IF i > Len(tests) THEN 0
    ELSE SumWeights(DefectsOf(tests[i])) * RecencyWeight10(Len(tests), i)
         + DefectDeduction10(tests, i + 1)

\* variant: a history with failures is charged once
FailuresOnce(tests) ==
    IF \E i \in 1..Len(tests) : Upper(tests[i].testResult) = "FAILED"
    THEN 1 ELSE 0

\* lines 282-284
Failures(tests) ==
    Cardinality({i \in 1..Len(tests) : Upper(tests[i].testResult) = "FAILED"})

\* variant: the two thresholds are not strict
MileageDeductionAtLeast10(tests) ==
    LET first_test == tests[1]
        latest_test == tests[Len(tests)]
    IN  IF /\ Parses(first_test.completedDate)
           /\ Parses(latest_test.completedDate)
           /\ HasReading(latest_test)
        THEN LET latest_odometer == IntOf(latest_test.odometerValue.chars)
                 age1461 == 4 * DaysBetween(first_test.completedDate,
                                            latest_test.completedDate)
                            + 3 * 1461
             IN  IF age1461 > 0 /\ latest_odometer > 0
                 THEN IF latest_odometer * 1461
                            >= 2 * UK_AVG_ANNUAL_MILEAGE * age1461
                      THEN -100
                      ELSE IF 2 * latest_odometer * 1461
                                >= 3 * UK_AVG_ANNUAL_MILEAGE * age1461
                      THEN -50
                      ELSE 0
                 ELSE 0
        ELSE 0

\* lines 293-318, in tenths: 0, -50 or -100.  The ratio
\* latest_odometer / (estimated_age_years * 7400) is compared exactly, scaled
\* by 365.25 * 4; the float ratio decides the same way unless the exact ratio
\* is 1.5 over a span that is not a multiple of 1461 days (48,100 miles over
\* 487 days give 1.5000000000000002), which no input of the model meets.
MileageDeduction10(tests) ==
    LET first_test == tests[1]
        latest_test == tests[Len(tests)]
    IN  IF /\ Parses(first_test.completedDate)
           /\ Parses(latest_test.completedDate)
           /\ HasReading(latest_test)
        THEN LET latest_odometer == IntOf(latest_test.odometerValue.chars)
                 \* estimated_age_years * 365.25 * 4
                 age1461 == 4 * DaysBetween(first_test.completedDate,
                                            latest_test.completedDate)
                            + 3 * 1461
             IN  IF age1461 > 0 /\ latest_odometer > 0
                 THEN IF latest_odometer * 1461
                            > 2 * UK_AVG_ANNUAL_MILEAGE * age1461
                      THEN -100
                      ELSE IF 2 * latest_odometer * 1461
                                > 3 * UK_AVG_ANNUAL_MILEAGE * age1461
                      THEN -50
                      ELSE 0
                 ELSE 0
        ELSE 0

\* lines 326-332
AdvisoryCount(test) ==
    Cardinality({j \in 1..Len(DefectsOf(test)) :
                    Upper(DefectsOf(test)[j].type) = "ADVISORY"})

\* variant: the trend comparisons are not strict
TrendNonStrict10(tests) ==
    IF Len(tests) >= 3
    THEN LET n == Len(tests)
             a == AdvisoryCount(tests[n - 2])
             b == AdvisoryCount(tests[n - 1])
             c == AdvisoryCount(tests[n])
         IN  IF a <= b /\ b <= c THEN -50
             ELSE IF a >= b /\ b >= c THEN 30
             ELSE 0
    ELSE 0

\* variant: the trend is read from the last two tests
TrendLastTwo10(tests) ==
    IF Len(tests) >= 2
    THEN LET n == Len(tests)
             b == AdvisoryCount(tests[n - 1])
             c == AdvisoryCount(tests[n])
         IN  IF b < c THEN -50
             ELSE IF b > c THEN 30
             ELSE 0
    ELSE 0

\* lines 323-339, in tenths: -50, +30 or 0
TrendAdjustment10(tests) ==
    IF Len(tests) >= 3
    THEN LET n == Len(tests)
             a == AdvisoryCount(tests[n - 2])
             b == AdvisoryCount(tests[n - 1])
             c == AdvisoryCount(tests[n])
         IN  IF a < b /\ b < c THEN -50
             ELSE IF a > b /\ b > c THEN 30
             ELSE 0
    ELSE 0

\* lines 255-339: the score before the cap, in tenths
RawScore10(tests) ==
    1000 + DefectDeduction10(tests, 1) - Failures(tests) * 80
    + MileageDeduction10(tests) + TrendAdjustment10(tests)

Min(a, b) == IF a < b THEN a ELSE b
Max(a, b) == IF a > b THEN a ELSE b

\* variant: the cap is assigned instead of taken as a minimum
HistoryCapAssign10(num_tests, score10) ==
    IF num_tests = 1 THEN 850
    ELSE IF num_tests = 2 THEN 920
    ELSE score10

\* lines 344-347
HistoryCap10(num_tests, score10) ==
    IF num_tests = 1 THEN Min(score10, 850)
    ELSE IF num_tests = 2 THEN Min(score10, 920)
    ELSE score10

\* A product weight * recency_weight is not a binary fraction exactly when
\* the weight is -3 and the recency weight is 0.8, 0.6 or 0.3; every other
\* product is a multiple of 0.5 and the float sum of such terms is exact.
HasInexactTerm(tests) ==
    \E i \in 1..Len(tests) :
        /\ RecencyWeight10(Len(tests), i) # 10
        /\ AdvisoryCount(tests[i]) > 0

\* variant: a half always goes up
RoundHalfUp(score10, inexact) == {(score10 + 5) \div 10}

\* round(score): Python rounds the float to the nearest integer, an exact
\* half to the even neighbour.  When the decimal sum is a half but the float
\* sum carries the representation error of an inexact term, the float lies
\* on either side of the half: both neighbours are possible outcomes.
RoundOutcomes(score10, inexact) ==
    LET lo == score10 \div 10
    IN  IF score10 % 10 = 5
        THEN IF inexact THEN {lo, lo + 1}
             ELSE IF lo % 2 = 0 THEN {lo} ELSE {lo + 1}
        ELSE {(score10 + 5) \div 10}

\* variant: only the upper clamp
ClampAbove(n) == Min(100, n)

\* line 349
Clamp(n) == Max(0, Min(100, n))

\* _calculate_condition_score(tests): the set of values the call can return
ConditionScores(tests) ==
    IF tests = <<>> THEN {50}
    ELSE LET capped == HistoryCap10(Len(tests), RawScore10(tests))
             inexact == HasInexactTerm(tests) /\ capped = RawScore10(tests)
         IN  {Clamp(r) : r \in RoundOutcomes(capped, inexact)}

(***************************************************************************)
(* Text.  A string is the sequence of its characters.                      *)
(***************************************************************************)
UpperLetters ==
    <<"A", "B", "C", "D", "E", "F", "G", "H", "I", "J", "K", "L", "M",
      "N", "O", "P", "Q", "R", "S", "T", "U", "V", "W", "X", "Y", "Z">>

LowerLetters ==
    <<"a", "b", "c", "d", "e", "f", "g", "h", "i", "j", "k", "l", "m",
      "n", "o", "p", "q", "r", "s", "t", "u", "v", "w", "x", "y", "z">>

\* str.lower() and str.upper(), character by character
ToLower(c) ==
    IF \E k \in 1..26 : UpperLetters[k] = c
    THEN LowerLetters[CHOOSE k \in 1..26 : UpperLetters[k] = c]
    ELSE c

ToUpper(c) ==
    IF \E k \in 1..26 : LowerLetters[k] = c
    THEN UpperLetters[CHOOSE k \in 1..26 : LowerLetters[k] = c]
    ELSE c

LowerChars(chars) ==
    IF chars = <<>> THEN <<>> ELSE [i \in 1..Len(chars) |-> ToLower(chars[i])]

UpperChars(chars) ==
    IF chars = <<>> THEN <<>> ELSE [i \in 1..Len(chars) |-> ToUpper(chars[i])]

\* needle in hay
Contains(needle, hay) ==
    \E k \in 0..(Len(hay) - Len(needle)) :
        SubSeq(hay, k + 1, k + Len(needle)) = needle

(***************************************************************************)
(* _analyze_failure_patterns                                               *)
(***************************************************************************)
\* the category list of lines 369-373, in its order
Categories ==
    <<[name |-> "brake", chars |-> <<"b", "r", "a", "k", "e">>],
      [name |-> "tyre", chars |-> <<"t", "y", "r", "e">>],
      [name |-> "suspension", chars |-> <<"s", "u", "s", "p", "e", "n", "s", "i", "o", "n">>],
      [name |-> "lighting", chars |-> <<"l", "i", "g", "h", "t", "i", "n", "g">>],
      [name |-> "exhaust", chars |-> <<"e", "x", "h", "a", "u", "s", "t">>],
      [name |-> "steering", chars |-> <<"s", "t", "e", "e", "r", "i", "n", "g">>],
      [name |-> "corrosion", chars |-> <<"c", "o", "r", "r", "o", "s", "i", "o", "n">>],
      [name |-> "rust", chars |-> <<"r", "u", "s", "t">>],
      [name |-> "emission", chars |-> <<"e", "m", "i", "s", "s", "i", "o", "n">>],
      [name |-> "windscreen", chars |-> <<"w", "i", "n", "d", "s", "c", "r", "e", "e", "n">>],
      [name |-> "seatbelt", chars |-> <<"s", "e", "a", "t", "b", "e", "l", "t">>],
      [name |-> "horn", chars |-> <<"h", "o", "r", "n">>],
      [name |-> "mirror", chars |-> <<"m", "i", "r", "r", "o", "r">>]>>

\* line 359: defect.get("text", defect.get("comment", "")); the text field of
\* a defect record holds the text, or the comment of a defect without text
DefectText(defect) == defect.text

\* variant: the last category of the list found in the text
LastCategory(text_lower) ==
    LET hits == {k \in 1..Len(Categories) : Contains(Categories[k].chars, text_lower)}
    IN  IF hits = {} THEN 0 ELSE CHOOSE k \in hits : \A j \in hits : k >= j

\* lines 369-376: the first category of the list found in the text, 0 if none
FirstCategory(text_lower) ==
    LET hits == {k \in 1..Len(Categories) : Contains(Categories[k].chars, text_lower)}
    IN  IF hits = {} THEN 0 ELSE CHOOSE k \in hits : \A j \in hits : k <= j

\* line 375: category_counts[category] = category_counts.get(category, 0) + 1;
\* the dict is the sequence of its items in insertion order
Tally(counts, category) ==
    IF \E i \in 1..Len(counts) : counts[i].category = category
    THEN [i \in 1..Len(counts) |->
             IF counts[i].category = category
             THEN [counts[i] EXCEPT !.count = @ + 1]
             ELSE counts[i]]
    ELSE Append(counts, [category |-> category, count |-> 1])

\* lines 358-376 over the defects of one test
RECURSIVE TallyDefects(_, _)
TallyDefects(counts, defects) ==
    IF defects = <<>> THEN counts
    ELSE LET k == FirstCategory(LowerChars(DefectText(Head(defects))))
         IN  TallyDefects(IF k = 0 THEN counts ELSE Tally(counts, Categories[k].name),
                          Tail(defects))

\* lines 356-376 over the tests
RECURSIVE CategoryCounts(_, _)
CategoryCounts(counts, tests) ==
    IF tests = <<>> THEN counts
    ELSE CategoryCounts(TallyDefects(counts, DefectsOf(Head(tests))), Tail(tests))

\* line 379: sorted(category_counts.items(), key=lambda x: -x[1]), stable
RECURSIVE InsertByCount(_, _)
InsertByCount(sorted, item) ==
    IF sorted = <<>> THEN <<item>>
    ELSE IF Head(sorted).count < item.count THEN <<item>> \o sorted
    ELSE <<Head(sorted)>> \o InsertByCount(Tail(sorted), item)

RECURSIVE SortedByCount(_)
SortedByCount(counts) ==
    IF counts = <<>> THEN <<>>
    ELSE InsertByCount(SortedByCount(SubSeq(counts, 1, Len(counts) - 1)),
                       counts[Len(counts)])

\* line 384
ConcernLevel(count) ==
    IF count >= 4 THEN "high" ELSE IF count >= 2 THEN "medium" ELSE "low"

\* variant: every tallied category is emitted
EmitPatternsFromOne(sorted_counts) ==
    [i \in 1..Len(sorted_counts) |->
        [category |-> sorted_counts[i].category,
         occurrences |-> sorted_counts[i].count,
         concern_level |-> ConcernLevel(sorted_counts[i].count)]]

\* lines 378-387: one pattern per category tallied at least twice
RECURSIVE EmitPatterns(_)
EmitPatterns(sorted_counts) ==
    IF sorted_counts = <<>> THEN <<>>
    ELSE LET item == Head(sorted_counts)
         IN  (IF item.count >= 2
              THEN <<[category |-> item.category,
                      occurrences |-> item.count,
                      concern_level |-> ConcernLevel(item.count)]>>
              ELSE <<>>)
             \o EmitPatterns(Tail(sorted_counts))

\* _analyze_failure_patterns(tests)
AnalyzeFailurePatterns(tests) ==
    EmitPatterns(SortedByCount(CategoryCounts(<<>>, tests)))

(***************************************************************************)
(* ulez.py.  None and a missing key are the empty sequence, a present      *)
(* value v is <<v>>; amounts are in pence.                                 *)
(***************************************************************************)
EXEMPT_FUEL_TYPES == {<<"E", "L", "E", "C", "T", "R", "I", "C", "I", "T", "Y">>,
                      <<"E", "L", "E", "C", "T", "R", "I", "C">>,
                      <<"H", "Y", "D", "R", "O", "G", "E", "N">>}
PETROL_FUEL_TYPES == {<<"P", "E", "T", "R", "O", "L">>}
DIESEL_FUEL_TYPES == {<<"D", "I", "E", "S", "E", "L">>,
                      <<"H", "E", "A", "V", "Y", " ", "O", "I", "L">>}
DieselWord == <<"D", "I", "E", "S", "E", "L">>
PetrolWord == <<"P", "E", "T", "R", "O", "L">>

\* the zone table, lines 47-205; the pound sign of the charge texts is
\* written GBP
ZONES ==
    <<
      [zone_id |-> "london_ulez", name |-> "London ULEZ", region |-> "England", type |-> "daily_charge",
       class |-> "D", cars_affected |-> TRUE, charge |-> "GBP 12.50/day",
       charge_amount |-> 1250, petrol_min_euro |-> <<4>>, diesel_min_euro |-> <<6>>],
      [zone_id |-> "london_lez", name |-> "London LEZ", region |-> "England", type |-> "daily_charge",
       class |-> "LEZ", cars_affected |-> FALSE, charge |-> "N/A (cars exempt)",
       charge_amount |-> 0, petrol_min_euro |-> <<4>>, diesel_min_euro |-> <<6>>],
      [zone_id |-> "birmingham_caz", name |-> "Birmingham CAZ", region |-> "England", type |-> "daily_charge",
       class |-> "D", cars_affected |-> TRUE, charge |-> "GBP 8/day",
       charge_amount |-> 800, petrol_min_euro |-> <<4>>, diesel_min_euro |-> <<6>>],
      [zone_id |-> "bristol_caz", name |-> "Bristol CAZ", region |-> "England", type |-> "daily_charge",
       class |-> "D", cars_affected |-> TRUE, charge |-> "GBP 9/day",
       charge_amount |-> 900, petrol_min_euro |-> <<4>>, diesel_min_euro |-> <<6>>],
      [zone_id |-> "bath_caz", name |-> "Bath CAZ", region |-> "England", type |-> "daily_charge",
       class |-> "C", cars_affected |-> FALSE, charge |-> "N/A (cars exempt)",
       charge_amount |-> 0, petrol_min_euro |-> <<4>>, diesel_min_euro |-> <<6>>],
      [zone_id |-> "bradford_caz", name |-> "Bradford CAZ", region |-> "England", type |-> "daily_charge",
       class |-> "C", cars_affected |-> FALSE, charge |-> "N/A (cars exempt)",
       charge_amount |-> 0, petrol_min_euro |-> <<4>>, diesel_min_euro |-> <<6>>],
      [zone_id |-> "portsmouth_caz", name |-> "Portsmouth CAZ", region |-> "England", type |-> "daily_charge",
       class |-> "B", cars_affected |-> FALSE, charge |-> "N/A (cars exempt)",
       charge_amount |-> 0, petrol_min_euro |-> <<4>>, diesel_min_euro |-> <<6>>],
      [zone_id |-> "sheffield_caz", name |-> "Sheffield CAZ", region |-> "England", type |-> "daily_charge",
       class |-> "C", cars_affected |-> FALSE, charge |-> "N/A (cars exempt)",
       charge_amount |-> 0, petrol_min_euro |-> <<4>>, diesel_min_euro |-> <<6>>],
      [zone_id |-> "tyneside_caz", name |-> "Tyneside CAZ (Newcastle/Gateshead)", region |-> "England", type |-> "daily_charge",
       class |-> "C", cars_affected |-> FALSE, charge |-> "N/A (cars exempt)",
       charge_amount |-> 0, petrol_min_euro |-> <<4>>, diesel_min_euro |-> <<6>>],
      [zone_id |-> "glasgow_lez", name |-> "Glasgow LEZ", region |-> "Scotland", type |-> "penalty",
       class |-> "LEZ", cars_affected |-> TRUE, charge |-> "GBP 60 first offence (doubles, max GBP 480)",
       charge_amount |-> 6000, petrol_min_euro |-> <<4>>, diesel_min_euro |-> <<6>>],
      [zone_id |-> "edinburgh_lez", name |-> "Edinburgh LEZ", region |-> "Scotland", type |-> "penalty",
       class |-> "LEZ", cars_affected |-> TRUE, charge |-> "GBP 60 first offence (doubles, max GBP 480)",
       charge_amount |-> 6000, petrol_min_euro |-> <<4>>, diesel_min_euro |-> <<6>>],
      [zone_id |-> "aberdeen_lez", name |-> "Aberdeen LEZ", region |-> "Scotland", type |-> "penalty",
       class |-> "LEZ", cars_affected |-> TRUE, charge |-> "GBP 60 first offence (doubles, max GBP 480)",
       charge_amount |-> 6000, petrol_min_euro |-> <<4>>, diesel_min_euro |-> <<6>>],
      [zone_id |-> "dundee_lez", name |-> "Dundee LEZ", region |-> "Scotland", type |-> "penalty",
       class |-> "LEZ", cars_affected |-> TRUE, charge |-> "GBP 60 first offence (doubles, max GBP 480)",
       charge_amount |-> 6000, petrol_min_euro |-> <<4>>, diesel_min_euro |-> <<6>>],
      [zone_id |-> "oxford_zez", name |-> "Oxford ZEZ", region |-> "England", type |-> "daily_charge",
       class |-> "ZEZ", cars_affected |-> TRUE, charge |-> "GBP 4-GBP 10/day (all non-EVs)",
       charge_amount |-> 400, petrol_min_euro |-> <<>>, diesel_min_euro |-> <<>>]
    >>

Digits == <<"0", "1", "2", "3", "4", "5", "6", "7", "8", "9">>
IsDigit(c) == \E k \in 1..10 : Digits[k] = c
DigitValue(c) == (CHOOSE k \in 1..10 : Digits[k] = c) - 1

\* variant: the last digit of the label
ParseEuroNumberLast(euro_status) ==
    LET at == {i \in 1..Len(euro_status) : IsDigit(euro_status[i])}
    IN  IF at = {} THEN <<>>
        ELSE <<DigitValue(euro_status[CHOOSE i \in at : \A j \in at : i >= j])>>

\* _parse_euro_number: re.search(r"(\d)", euro_status), lines 382-391
ParseEuroNumber(euro_status) ==
    LET at == {i \in 1..Len(euro_status) : IsDigit(euro_status[i])}
    IN  IF at = {} THEN <<>>
        ELSE <<DigitValue(euro_status[CHOOSE i \in at : \A j \in at : i <= j])>>

\* variant: only a fuel text containing DIESEL is diesel
IsDieselText(fuel_type) == Contains(DieselWord, fuel_type)

\* lines 280 and 397
IsDiesel(fuel_type) ==
    fuel_type \in DIESEL_FUEL_TYPES \/ Contains(DieselWord, fuel_type)

\* line 281
IsPetrol(fuel_type) ==
    fuel_type \in PETROL_FUEL_TYPES \/ Contains(PetrolWord, fuel_type)

\* _estimate_euro_from_year, lines 394-420
EstimateEuroFromYear(year, fuel_type) ==
    IF IsDiesel(UpperChars(fuel_type))
    THEN IF year >= 2015 THEN 6
         ELSE IF year >= 2009 THEN 5
         ELSE IF year >= 2006 THEN 4
         ELSE IF year >= 2001 THEN 3
         ELSE 2
    ELSE IF year >= 2011 THEN 6
         ELSE IF year >= 2006 THEN 5
         ELSE IF year >= 2001 THEN 4
         ELSE IF year >= 1997 THEN 3
         ELSE 2

\* variant: the fuel type is compared as given
FuelTypeAsGiven(data) == data.fuelType

\* line 225: (vehicle_data.get("fuelType") or "").upper()
FuelTypeOf(data) == UpperChars(data.fuelType)

\* variant: the zero-emission zone counts as met by every vehicle
ZoneCompliantZezMet(zone, is_ev, fuel_type, euro_number) ==
    IF zone.class = "ZEZ" THEN TRUE
    ELSE IF ~zone.cars_affected THEN TRUE
    ELSE LET min_euro ==
                 IF IsDiesel(fuel_type) THEN zone.diesel_min_euro
                 ELSE IF IsPetrol(fuel_type) THEN zone.petrol_min_euro
                 ELSE IF Contains(DieselWord, fuel_type) THEN zone.diesel_min_euro
                 ELSE zone.petrol_min_euro
         IN  IF min_euro # <<>> /\ min_euro[1] # 0
             THEN euro_number >= min_euro[1]
             ELSE FALSE

\* lines 290-310: the result of one zone
ZoneCompliant(zone, is_ev, fuel_type, euro_number) ==
    IF zone.class = "ZEZ"
    THEN IF ~zone.cars_affected THEN TRUE ELSE is_ev
    ELSE IF ~zone.cars_affected THEN TRUE
    ELSE LET min_euro ==
                 IF IsDiesel(fuel_type) THEN zone.diesel_min_euro
                 ELSE IF IsPetrol(fuel_type) THEN zone.petrol_min_euro
                 ELSE IF Contains(DieselWord, fuel_type) THEN zone.diesel_min_euro
                 ELSE zone.petrol_min_euro
         IN  IF min_euro # <<>> /\ min_euro[1] # 0
             THEN euro_number >= min_euro[1]
             ELSE FALSE

\* lines 324-332 (and 235-243 with charge "Exempt")
ZoneDetail(zone, compliant, charge_text) ==
    [zone_id |-> zone.zone_id, name |-> zone.name, region |-> zone.region,
     compliant |-> compliant, charge |-> charge_text,
     cars_affected |-> zone.cars_affected, zone_type |-> zone.type]

\* lines 314-316
ChargeText(zone, compliant) ==
    IF ~compliant /\ zone.cars_affected THEN zone.charge ELSE "No charge"

\* lines 315-322: the charges of the non-compliant zones that affect cars
RECURSIVE ChargesList(_, _)
ChargesList(zone_results, k) ==
    IF k > Len(ZONES) THEN <<>>
    ELSE (IF ~zone_results[k] /\ ZONES[k].cars_affected
          THEN <<[zone |-> ZONES[k].name, charge |-> ZONES[k].charge,
                  amount |-> ZONES[k].charge_amount, type |-> ZONES[k].type]>>
          ELSE <<>>)
         \o ChargesList(zone_results, k + 1)

\* variant: the zero-emission zone is left out of the zones affecting cars
CarZonesExceptZEZ(zone_details) ==
    {k \in 1..Len(zone_details) :
        zone_details[k].cars_affected /\ zone_details[k].zone_id # "oxford_zez"}

\* line 335
CarZones(zone_details) ==
    {k \in 1..Len(zone_details) : zone_details[k].cars_affected}

\* variant: the last charge of the list rather than the highest one
HighestLast(charges) == charges[Len(charges)]

\* max(daily_charges, key=amount): the first charge of the highest amount
Highest(charges) ==
    charges[CHOOSE i \in 1..Len(charges) :
                /\ \A j \in 1..Len(charges) : charges[j].amount <= charges[i].amount
                /\ \A j \in 1..(i - 1) : charges[j].amount < charges[i].amount]

\* lines 353-363: the parts joined into daily_charge, None without charges
DailyCharge(charges_list) ==
    LET daily_charges == SelectSeq(charges_list, LAMBDA c : c.type = "daily_charge")
        penalty_charges == SelectSeq(charges_list, LAMBDA c : c.type = "penalty")
    IN  (IF daily_charges # <<>>
         THEN <<[part |-> "per day", amount |-> Highest(daily_charges).amount,
                 zone |-> Highest(daily_charges).zone]>>
         ELSE <<>>)
        \o (IF penalty_charges # <<>>
            THEN <<[part |-> "penalty", amount |-> 6000, zone |-> "Scottish LEZs"]>>
            ELSE <<>>)

\* lines 218-223 and 271-277
UnknownResult(reason) ==
    [compliant |-> <<>>, status |-> "unknown",
     reason |-> [text |-> reason, fuel_type |-> <<>>, euro |-> <<>>,
                 inferred |-> FALSE, zones |-> <<>>],
     euro_standard |-> <<>>, euro_inferred |-> <<>>, fuel_type |-> <<>>,
     daily_charge |-> <<>>, zones |-> <<>>, zone_details |-> <<>>,
     total_zones |-> <<>>, compliant_zones |-> <<>>,
     non_compliant_zones |-> <<>>, charges_apply_zones |-> <<>>]

\* lines 230-259
ExemptResult(fuel_type) ==
    [compliant |-> <<TRUE>>, status |-> "exempt",
     reason |-> [text |-> "vehicles are exempt from all UK emission zones",
                 fuel_type |-> fuel_type, euro |-> <<>>,
                 inferred |-> FALSE, zones |-> <<>>],
     euro_standard |-> <<>>, euro_inferred |-> <<>>, fuel_type |-> fuel_type,
     daily_charge |-> <<>>,
     zones |-> [k \in 1..Len(ZONES) |-> TRUE],
     zone_details |-> [k \in 1..Len(ZONES) |-> ZoneDetail(ZONES[k], TRUE, "Exempt")],
     total_zones |-> <<Len(ZONES)>>, compliant_zones |-> <<Len(ZONES)>>,
     non_compliant_zones |-> <<0>>, charges_apply_zones |-> <<0>>]

\* lines 279-379
ZonesResult(fuel_type, is_ev, euro_number, inferred) ==
    LET zone_results ==
            [k \in 1..Len(ZONES) |-> ZoneCompliant(ZONES[k], is_ev, fuel_type, euro_number)]
        zone_details ==
            [k \in 1..Len(ZONES) |->
                ZoneDetail(ZONES[k], zone_results[k], ChargeText(ZONES[k], zone_results[k]))]
        charges_list == ChargesList(zone_results, 1)
        car_zones == CarZones(zone_details)
        all_compliant == \A k \in car_zones : zone_details[k].compliant
        non_compliant_count == Cardinality({k \in car_zones : ~zone_details[k].compliant})
        compliant_count ==
            Cardinality({k \in 1..Len(zone_details) : zone_details[k].compliant})
    IN  [compliant |-> <<all_compliant>>,
         status |-> IF all_compliant THEN "compliant" ELSE "non_compliant",
         reason |-> [text |-> IF all_compliant
                              THEN "meets emission requirements for all zones affecting cars"
                              ELSE "non-compliant in zones",
                     fuel_type |-> fuel_type, euro |-> <<euro_number>>,
                     inferred |-> inferred,
                     zones |-> IF all_compliant THEN <<Cardinality(car_zones)>>
                               ELSE <<non_compliant_count>>],
         euro_standard |-> <<euro_number>>,
         euro_inferred |-> IF euro_number # 0 THEN <<inferred>> ELSE <<>>,
         fuel_type |-> fuel_type,
         daily_charge |-> DailyCharge(charges_list),
         zones |-> zone_results,
         zone_details |-> zone_details,
         total_zones |-> <<Len(ZONES)>>,
         compliant_zones |-> <<compliant_count>>,
         non_compliant_zones |-> <<non_compliant_count>>,
         charges_apply_zones |-> <<Len(charges_list)>>]

\* calculate_ulez_compliance(vehicle_data), lines 208-379; vehicle_data is
\* <<>> for None or an empty dict, <<data>> otherwise; a fuelType or
\* euroStatus that is None, missing or "" is the empty string, a
\* yearOfManufacture that is None, missing or 0 is 0
CalculateUlezCompliance(vehicle) ==
    IF vehicle = <<>> THEN UnknownResult("No vehicle data available")
    ELSE LET data == vehicle[1]
             fuel_type == FuelTypeOf(data)
             euro_status == data.euroStatus
             is_ev == fuel_type \in EXEMPT_FUEL_TYPES
         IN  IF is_ev THEN ExemptResult(fuel_type)
             ELSE LET euro_number == ParseEuroNumber(euro_status)
                      year == data.yearOfManufacture
                  IN  IF euro_number # <<>>
                      THEN ZonesResult(fuel_type, is_ev, euro_number[1], FALSE)
                      ELSE IF year # 0
                      THEN ZonesResult(fuel_type, is_ev,
                                       EstimateEuroFromYear(year, fuel_type), TRUE)
                      ELSE UnknownResult("Euro standard not available")

(***************************************************************************)
(* _build_mileage_timeline                                                 *)
(***************************************************************************)
\* lines 217-233: one entry per test with a parseable odometer; the date is
\* the first ten characters of completedDate
RECURSIVE BuildMileageTimeline(_)
BuildMileageTimeline(tests) ==
    IF tests = <<>> THEN <<>>
    ELSE LET t == Head(tests)
         IN  (IF HasReading(t)
              THEN <<[date |-> t.completedDate,
                      miles |-> IntOf(t.odometerValue.chars),
                      unit |-> "mi"]>>
              ELSE <<>>)
             \o BuildMileageTimeline(Tail(tests))

(***************************************************************************)
(* Records with fields that are null or absent.  A completedDate of None   *)
(* is kept as NullDate and a record without the key as AbsentDate (as a    *)
(* sort key the latter is "", which is below every date string); a         *)
(* testResult or defect type of None is kept as NullText, an absent one as *)
(* the "" that .get() puts in its place.  An absent odometerValue is       *)
(* NoneValue.                                                              *)
(***************************************************************************)
NullDate == Date(0, 0, 0, 0)
AbsentDate == Date(0, 0, 0, -1)
NullText == "<None>"

\* line 47: sorted() compares the keys of a list of two or more records, and
\* None < str is a TypeError
\* line 100: test["completedDate"] on a record with a parseable odometer
\* lines 277 and 283: None.upper() on a defect type and on a testResult
\* lines 229, 364, 424 and 454: None[:10] on the completedDate of a record
\* (line 424 reads it for every record)
\* analyze(mot_data) ends in an exception when one of them raises
AnalyzeRaises(tests) ==
    \/ Len(tests) >= 2 /\ \E i \in 1..Len(tests) : tests[i].completedDate = NullDate
    \/ \E i \in 1..Len(tests) :
           HasReading(tests[i]) /\ tests[i].completedDate = AbsentDate
    \/ \E i \in 1..Len(tests) :
           \/ tests[i].testResult = NullText
           \/ \E j \in 1..Len(DefectsOf(tests[i])) :
                  DefectsOf(tests[i])[j].type = NullText
    \/ \E i \in 1..Len(tests) : tests[i].completedDate = NullDate

(***************************************************************************)
(* calculate_vehicle_stats (backend/app/services/data/vehicle_stats.py).   *)
(* A key that the function does not set is <<>>, a key it sets is <<v>>.   *)
(* A date field of the registry record that is None, absent or "" is       *)
(* NullDate, a monthOfFirstRegistration that is None, absent or "" is "".  *)
(***************************************************************************)
NoStats ==
    [vehicle_age_years |-> <<>>, year_of_manufacture |-> <<>>,
     first_registered |-> <<>>,
     mot_expiry_date |-> <<>>, mot_days_remaining |-> <<>>,
     mot_status_detail |-> <<>>,
     tax_due_date |-> <<>>, tax_days_remaining |-> <<>>,
     tax_status_detail |-> <<>>,
     v5c_issued_date |-> <<>>, v5c_days_since |-> <<>>, v5c_insight |-> <<>>,
     estimated_annual_mileage |-> <<>>, total_recorded_mileage |-> <<>>,
     mileage_readings_count |-> <<>>, mileage_assessment |-> <<>>,
     total_advisory_items |-> <<>>, total_failure_items |-> <<>>,
     total_dangerous_items |-> <<>>, total_major_items |-> <<>>,
     total_minor_items |-> <<>>]

\* lines 34-44
AgeStats(dvla_data, now) ==
    IF dvla_data = <<>> THEN [x \in {} |-> <<>>]
    ELSE LET year == dvla_data[1].yearOfManufacture
             month_reg == dvla_data[1].monthOfFirstRegistration
         IN  (IF year # 0
              THEN [k \in {"vehicle_age_years", "year_of_manufacture"} |->
                       IF k = "vehicle_age_years" THEN <<now.y - year>>
                       ELSE <<year>>]
              ELSE [x \in {} |-> <<>>])
             @@ (IF month_reg # ""
                 THEN [k \in {"first_registered"} |-> <<month_reg>>]
                 ELSE [x \in {} |-> <<>>])

\* lines 55-62 and 75-82: the status text, as its wording and its number
StatusDetail(delta, on_the_day, in_days) ==
    IF delta < 0 THEN [text |-> "Expired days ago", days |-> Abs(delta)]
    ELSE IF delta = 0 THEN [text |-> on_the_day, days |-> 0]
    ELSE IF delta <= 30 THEN [text |-> in_days, days |-> delta]
    ELSE [text |-> "Valid for days", days |-> delta]

\* lines 47-64
MotExpiryStats(dvla_data, now) ==
    IF dvla_data = <<>> THEN [x \in {} |-> <<>>]
    ELSE LET mot_expiry == dvla_data[1].motExpiryDate
         IN  IF mot_expiry # NullDate /\ Parses(mot_expiry)
             THEN LET delta == DaysBetween(now, mot_expiry)
                  IN  [k \in {"mot_expiry_date", "mot_days_remaining",
                              "mot_status_detail"} |->
                          IF k = "mot_expiry_date" THEN <<mot_expiry>>
                          ELSE IF k = "mot_days_remaining" THEN <<delta>>
                          ELSE <<StatusDetail(delta, "Expires today", "Expires in days")>>]
             ELSE [x \in {} |-> <<>>]

\* lines 67-84
TaxDueStats(dvla_data, now) ==
    IF dvla_data = <<>> THEN [x \in {} |-> <<>>]
    ELSE LET tax_due == dvla_data[1].taxDueDate
         IN  IF tax_due # NullDate /\ Parses(tax_due)
             THEN LET delta == DaysBetween(now, tax_due)
                  IN  [k \in {"tax_due_date", "tax_days_remaining",
                              "tax_status_detail"} |->
                          IF k = "tax_due_date" THEN <<tax_due>>
                          ELSE IF k = "tax_days_remaining" THEN <<delta>>
                          ELSE <<StatusDetail(delta, "Due today", "Due in days")>>]
             ELSE [x \in {} |-> <<>>]

\* lines 96-102: the insight text, as its wording and its number
V5cInsight(days_since) ==
    IF days_since <= 90 THEN [text |-> "V5C recently issued", n |-> 0]
    ELSE IF days_since <= 365
    THEN [text |-> "V5C issued days ago", n |-> days_since]
    ELSE IF days_since \div 365 > 1
    THEN [text |-> "V5C issued ~ years ago", n |-> days_since \div 365]
    ELSE [text |-> "V5C issued ~ year ago", n |-> days_since \div 365]

\* lines 87-104
V5cStats(dvla_data, now) ==
    IF dvla_data = <<>> THEN [x \in {} |-> <<>>]
    ELSE LET v5c_date == dvla_data[1].dateOfLastV5CIssued
         IN  IF v5c_date # NullDate /\ Parses(v5c_date)
             THEN LET days_since == DaysBetween(v5c_date, now)
                  IN  [k \in {"v5c_issued_date", "v5c_days_since",
                              "v5c_insight"} |->
                          IF k = "v5c_issued_date" THEN <<v5c_date>>
                          ELSE IF k = "v5c_days_since" THEN <<days_since>>
                          ELSE <<V5cInsight(days_since)>>]
             ELSE [x \in {} |-> <<>>]

\* variant: the assessment is made on the rounded average
AssessmentOfRounded(total_miles, days) ==
    LET rounded == (2 * total_miles * 1461 + 4 * days) \div (2 * 4 * days)
    IN  IF rounded < 5000 THEN "Below average mileage"
        ELSE IF rounded < 10000 THEN "Average mileage"
        ELSE IF rounded < 15000 THEN "Above average mileage"
        ELSE "High mileage"

\* lines 121-128: annual_avg = total_miles / (days / 365.25) against 5000,
\* 10000 and 15000, as the exact comparison of total_miles * 1461 with the
\* threshold * 4 * days.  The quotient equals a threshold only when days is
\* a multiple of 1461, where days / 365.25 and the quotient are exact floats.
Assessment(total_miles, days) ==
    IF total_miles * 1461 < 5000 * 4 * days THEN "Below average mileage"
    ELSE IF total_miles * 1461 < 10000 * 4 * days THEN "Average mileage"
    ELSE IF total_miles * 1461 < 15000 * 4 * days THEN "Above average mileage"
    ELSE "High mileage"

\* line 116: round(annual_avg), to the nearest integer and an exact half to
\* the even neighbour.  When days is not a multiple of 1461 the float
\* days / 365.25 is inexact and a quotient that is decimally a half can lie
\* on either side of it: both neighbours are possible outcomes.
RoundedAverages(total_miles, days) ==
    LET num == total_miles * 1461
        den == 4 * days
        lo == num \div den
        twice_rest == 2 * (num % den)
    IN  IF twice_rest < den THEN {lo}
        ELSE IF twice_rest > den THEN {lo + 1}
        ELSE IF days % 1461 # 0 THEN {lo, lo + 1}
        ELSE IF lo % 2 = 0 THEN {lo} ELSE {lo + 1}

\* lines 107-131: the mileage keys, for each value the rounding can give
MileageStats(timeline) ==
    IF Len(timeline) >= 2
    THEN LET first == timeline[1]
             last == timeline[Len(timeline)]
         IN  IF /\ Parses(first.date) /\ Parses(last.date)
                /\ DaysBetween(first.date, last.date) > 0
             THEN LET days == DaysBetween(first.date, last.date)
                      total_miles == last.miles - first.miles
                  IN  {[k \in {"estimated_annual_mileage",
                               "total_recorded_mileage",
                               "mileage_readings_count",
                               "mileage_assessment"} |->
                           IF k = "estimated_annual_mileage" THEN <<avg>>
                           ELSE IF k = "total_recorded_mileage" THEN <<last.miles>>
                           ELSE IF k = "mileage_readings_count" THEN <<Len(timeline)>>
                           ELSE <<Assessment(total_miles, days)>>] :
                       avg \in RoundedAverages(total_miles, days)}
             ELSE {[x \in {} |-> <<>>]}
    ELSE {[x \in {} |-> <<>>]}

\* lines 141-152: the defects of all tests whose type is in the given set
RECURSIVE CountDefects(_, _)
CountDefects(tests, types) ==
    IF tests = <<>> THEN 0
    ELSE LET defects == DefectsOf(Head(tests))
         IN  Cardinality({j \in 1..Len(defects) : Upper(defects[j].type) \in types})
             + CountDefects(Tail(tests), types)

\* lines 134-159
DefectStats(tests) ==
    IF tests = <<>> THEN [x \in {} |-> <<>>]
    ELSE [k \in {"total_advisory_items", "total_failure_items",
                 "total_dangerous_items", "total_major_items",
                 "total_minor_items"} |->
             <<CountDefects(tests,
                            CASE k = "total_advisory_items" -> {"ADVISORY"}
                              [] k = "total_failure_items" ->
                                     {"DANGEROUS", "MAJOR", "MINOR"}
                              [] k = "total_dangerous_items" -> {"DANGEROUS"}
                              [] k = "total_major_items" -> {"MAJOR"}
                              [] OTHER -> {"MINOR"})>>]

\* calculate_vehicle_stats(dvla_data, mot_tests, mileage_timeline), lines
\* 15-161: the dicts the call can return when the clock (date.today(), line
\* 31) shows the day now
CalculateVehicleStats(dvla_data, tests, timeline, now) ==
    {DefectStats(tests) @@ mileage @@ V5cStats(dvla_data, now)
        @@ TaxDueStats(dvla_data, now) @@ MotExpiryStats(dvla_data, now)
        @@ AgeStats(dvla_data, now) @@ NoStats :
     mileage \in MileageStats(timeline)}

(***************************************************************************)
(* analyze                                                                 *)
(***************************************************************************)
\* lines 66-77
EmptyResultScore == <<>>

Unset == [clocked |-> FALSE, risk_level |-> "unset", flags |-> <<>>]

\* the day the clock shows when the model starts
FirstDay == Date(2025, 12, 30, Hyphen)

\* no fetch is made
NotFetched == [kind |-> "none", data |-> <<>>]

\* analyze(mot_data): lines 33-64
Analyze ==
    /\ pc = "ready"
    /\ IF has_data /\ AnalyzeRaises(mot_tests)
       THEN /\ pc' = "raised"
            /\ UNCHANGED <<clocking_analysis, condition_score,
                           mileage_timeline, failure_patterns>>
       ELSE /\ pc' = "analyzed"
            /\ IF ~has_data \/ mot_tests = <<>>
               THEN /\ clocking_analysis' = EmptyClocking
                    /\ condition_score' = EmptyResultScore
                    /\ mileage_timeline' = <<>>
                    /\ failure_patterns' = <<>>
               ELSE LET sorted_tests == SortedTests(mot_tests)
                    IN  /\ clocking_analysis' = DetectClocking(sorted_tests)
                        /\ \E s \in ConditionScores(sorted_tests) :
                               condition_score' = <<s>>
                        /\ mileage_timeline' = BuildMileageTimeline(sorted_tests)
                        /\ failure_patterns' = AnalyzeFailurePatterns(sorted_tests)
    /\ UNCHANGED <<has_data, mot_tests, vehicle_data, ulez_result,
                   stats_vars, check_vars>>

\* _detect_clocking(tests) called on the list as given
CallDetectClocking ==
    /\ pc = "ready"
    /\ has_data
    /\ pc' = "detected"
    /\ clocking_analysis' = DetectClocking(mot_tests)
    /\ UNCHANGED <<has_data, mot_tests, condition_score, mileage_timeline,
                   failure_patterns, vehicle_data, ulez_result, stats_vars,
                   check_vars>>

\* _calculate_condition_score(tests) called on the list as given
CallCalculateConditionScore ==
    /\ pc = "ready"
    /\ has_data
    /\ pc' = "scored"
    /\ \E s \in ConditionScores(mot_tests) : condition_score' = <<s>>
    /\ UNCHANGED <<has_data, mot_tests, mileage_timeline, clocking_analysis,
                   failure_patterns, vehicle_data, ulez_result, stats_vars,
                   check_vars>>

\* _analyze_failure_patterns(tests) called on the list as given
CallAnalyzeFailurePatterns ==
    /\ pc = "ready"
    /\ has_data
    /\ pc' = "patterns"
    /\ failure_patterns' = AnalyzeFailurePatterns(mot_tests)
    /\ UNCHANGED <<has_data, mot_tests, clocking_analysis, condition_score,
                   mileage_timeline, vehicle_data, ulez_result, stats_vars,
                   check_vars>>

\* calculate_ulez_compliance(vehicle_data)
CallCalculateUlezCompliance ==
    /\ pc = "ready"
    /\ pc' = "ulez"
    /\ ulez_result' = CalculateUlezCompliance(vehicle_data)
    /\ UNCHANGED <<has_data, mot_tests, clocking_analysis, condition_score,
                   mileage_timeline, failure_patterns, vehicle_data,
                   stats_vars, check_vars>>

\* calculate_vehicle_stats(vehicle_data, mot_tests, mileage_timeline); the
\* function can be called again with the same arguments
CallCalculateVehicleStats ==
    /\ pc \in {"ready", "stats"}
    /\ pc' = "stats"
    /\ vehicle_stats' \in CalculateVehicleStats(vehicle_data, mot_tests,
                                                mileage_timeline, today)
    /\ UNCHANGED <<has_data, mot_tests, clocking_analysis, condition_score,
                   mileage_timeline, failure_patterns, vehicle_data,
                   ulez_result, today, check_vars>>

\* the day after d in the calendar
NextDay(d) ==
    IF d.d < DaysInMonth(d.y, d.m) THEN [d EXCEPT !.d = @ + 1]
    ELSE IF d.m < 12 THEN [d EXCEPT !.m = @ + 1, !.d = 1]
    ELSE [d EXCEPT !.y = @ + 1, !.m = 1, !.d = 1]

\* midnight passes: date.today() returns the next day from now on
Tick ==
    /\ Ordinal(today) - Ordinal(FirstDay) < MaxClockDays
    /\ today' = NextDay(today)
    /\ UNCHANGED <<has_data, mot_tests, pc, clocking_analysis, condition_score,
                   mileage_timeline, failure_patterns, vehicle_data,
                   ulez_result, vehicle_stats, check_vars>>

\* the calls made on a mileage history
Next == Analyze \/ CallDetectClocking

\* the calls made on a defect history
NextScore == Analyze \/ CallCalculateConditionScore

\* the calls made on a history of defect texts
NextPatterns == Analyze \/ CallAnalyzeFailurePatterns

\* the call made on a registry record
NextUlez == CallCalculateUlezCompliance

\* the stats call, made on any day
NextStats == CallCalculateVehicleStats \/ Tick

(***************************************************************************)
(* Inputs.                                                                 *)
(***************************************************************************)
RECURSIVE SeqsUpTo(_, _)
SeqsUpTo(S, n) ==
    IF n = 0 THEN {<<>>}
    ELSE LET shorter == SeqsUpTo(S, n - 1)
         IN  shorter \cup {Append(q, x) : q \in shorter, x \in S}

Test(date, odometer, result, defects) ==
    [completedDate |-> date, odometerValue |-> odometer,
     testResult |-> result, defects |-> defects, rfrAndComments |-> <<>>]

\* Mileage histories: tests on three dates fourteen days, and 487 days,
\* apart at 10,000 / 10,100 / 20,000 / 60,000 miles, a test whose date is in
\* the dotted format that strptime rejects (46 is "."), a test without
\* odometer and a test whose odometer is not a number (10 is a letter).
ClockTests ==
    {Test(d, o, "PASSED", <<>>) :
        d \in {Date(2020, 1, 15, Hyphen), Date(2020, 1, 29, Hyphen),
               Date(2021, 5, 16, Hyphen)},
        o \in {Str(<<1, 0, 0, 0, 0>>), Str(<<1, 0, 1, 0, 0>>),
               Str(<<2, 0, 0, 0, 0>>), Str(<<6, 0, 0, 0, 0>>)}}
    \cup {Test(Date(2020, 6, 15, 46), Str(<<1, 0, 1, 0, 0>>), "PASSED", <<>>),
          Test(Date(2020, 1, 15, Hyphen), NoneValue, "PASSED", <<>>),
          Test(Date(2020, 1, 29, Hyphen), Str(<<10, 10>>), "PASSED", <<>>)}

Init ==
    /\ has_data \in BOOLEAN
    /\ mot_tests \in SeqsUpTo(ClockTests, MaxTests)
    /\ has_data = FALSE => mot_tests = <<>>
    /\ pc = "ready"
    /\ clocking_analysis = Unset
    /\ condition_score = <<>>
    /\ mileage_timeline = <<>>
    /\ failure_patterns = <<>>
    /\ vehicle_data = <<>>
    /\ ulez_result = <<>>
    /\ today = FirstDay
    /\ vehicle_stats = <<>>
    /\ registration = <<>>
    /\ dvla_fetch = NotFetched
    /\ mot_fetch = NotFetched
    /\ response = <<>>

Spec == Init /\ [][Next]_vars

\* Defect histories: tests on two dates three years apart, at 20,000 /
\* 37,000 / 50,000 miles or without odometer, passed or failed, with defect
\* lists of every severity (one type in lower case, one unknown type, one
\* list under rfrAndComments).
Defect(type) == [type |-> type, text |-> <<>>]

DateA == Date(2020, 1, 15, Hyphen)
DateB == Date(2023, 1, 15, Hyphen)
Miles20k == Str(<<2, 0, 0, 0, 0>>)
Miles37k == Str(<<3, 7, 0, 0, 0>>)

ScoreTests ==
    {Test(DateA, Str(<<5, 0, 0, 0, 0>>), "PASSED", <<>>),
     Test(DateB, Miles20k, "PASSED", <<>>),
     Test(DateB, Miles20k, "PASSED", <<Defect("ADVISORY")>>),
     Test(DateB, Miles20k, "PASSED", <<Defect("ADVISORY"), Defect("ADVISORY")>>),
     Test(DateA, Miles20k, "FAILED", <<Defect("MAJOR")>>),
     Test(DateA, Miles37k, "PASSED", <<Defect("DANGEROUS")>>),
     Test(DateA, Miles37k, "PASSED",
          <<Defect("DANGEROUS"), Defect("DANGEROUS"),
            Defect("DANGEROUS"), Defect("DANGEROUS")>>),
     Test(DateB, NoneValue, "FAILED", <<Defect("PRS")>>),
     [Test(DateA, Miles20k, "PASSED", <<>>)
        EXCEPT !.rfrAndComments = <<Defect("MINOR"), Defect("advisory")>>]}

InitScore ==
    /\ has_data \in BOOLEAN
    /\ mot_tests \in SeqsUpTo(ScoreTests, MaxScoreTests)
    /\ has_data = FALSE => mot_tests = <<>>
    /\ pc = "ready"
    /\ clocking_analysis = Unset
    /\ condition_score = <<>>
    /\ mileage_timeline = <<>>
    /\ failure_patterns = <<>>
    /\ vehicle_data = <<>>
    /\ ulez_result = <<>>
    /\ today = FirstDay
    /\ vehicle_stats = <<>>
    /\ registration = <<>>
    /\ dvla_fetch = NotFetched
    /\ mot_fetch = NotFetched
    /\ response = <<>>

SpecScore == InitScore /\ [][NextScore]_vars

\* Mileage histories for the mileage-vs-age factor: tests with one Dangerous
\* defect on two dates 1461 days (four years) apart, with the odometer at
\* and one mile above 1.5 and 2.0 times the expected mileage of a three-year
\* and of a seven-year estimated age (22,200 and 51,800 miles), at 37,000
\* miles, and without odometer.
DateC == Date(2024, 1, 15, Hyphen)

MileageTests ==
    {Test(d, o, "PASSED", <<Defect("DANGEROUS")>>) :
        d \in {DateA, DateC},
        o \in {Str(<<3, 3, 3, 0, 0>>), Str(<<3, 3, 3, 0, 1>>),
               Str(<<3, 7, 0, 0, 0>>),
               Str(<<4, 4, 4, 0, 0>>), Str(<<4, 4, 4, 0, 1>>),
               Str(<<7, 7, 7, 0, 0>>), Str(<<7, 7, 7, 0, 1>>),
               Str(<<1, 0, 3, 6, 0, 0>>), Str(<<1, 0, 3, 6, 0, 1>>),
               NoneValue}}

InitMileage ==
    /\ has_data = TRUE
    /\ mot_tests \in SeqsUpTo(MileageTests, MaxMileageTests)
    /\ pc = "ready"
    /\ clocking_analysis = Unset
    /\ condition_score = <<>>
    /\ mileage_timeline = <<>>
    /\ failure_patterns = <<>>
    /\ vehicle_data = <<>>
    /\ ulez_result = <<>>
    /\ today = FirstDay
    /\ vehicle_stats = <<>>
    /\ registration = <<>>
    /\ dvla_fetch = NotFetched
    /\ mot_fetch = NotFetched
    /\ response = <<>>

SpecMileage == InitMileage /\ [][NextScore]_vars

\* Defect-text histories: tests of two dates whose defects are worded with
\* one keyword, with two keywords in either order, in upper case, with a
\* keyword inside another word, and with none; one test lists its defect
\* under rfrAndComments.
TextDefect(type, text) == [type |-> type, text |-> text]

TextBrakePad == <<"B", "r", "a", "k", "e", " ", "p", "a", "d">>
TextRustyBrake == <<"r", "u", "s", "t", "y", " ", "B", "R", "A", "K", "E">>
TextTyreRust == <<"T", "y", "r", "e", " ", "r", "u", "s", "t">>

PatternTests ==
    {Test(DateA, Miles20k, "FAILED",
          <<TextDefect("MAJOR", TextBrakePad), TextDefect("ADVISORY", TextRustyBrake)>>),
     Test(DateB, Miles20k, "PASSED", <<TextDefect("ADVISORY", TextTyreRust)>>),
     Test(DateA, Miles20k, "PASSED",
          <<TextDefect("ADVISORY", <<"R", "u", "s", "t">>),
            TextDefect("ADVISORY", <<"w", "e", "a", "r">>)>>),
     Test(DateB, Miles20k, "PASSED",
          <<TextDefect("MINOR", <<"t", "h", "o", "r", "n">>)>>),
     Test(DateA, Miles20k, "PASSED", <<>>),
     [Test(DateB, Miles20k, "PASSED", <<>>)
        EXCEPT !.rfrAndComments = <<TextDefect("ADVISORY", TextBrakePad)>>],
     Test(DateA, Miles20k, "PASSED",
          <<TextDefect("ADVISORY", TextTyreRust), TextDefect("ADVISORY", TextTyreRust),
            TextDefect("ADVISORY", <<"H", "o", "r", "n">>)>>)}

InitPatterns ==
    /\ has_data = TRUE
    /\ mot_tests \in SeqsUpTo(PatternTests, MaxPatternTests)
    /\ pc = "ready"
    /\ clocking_analysis = Unset
    /\ condition_score = <<>>
    /\ mileage_timeline = <<>>
    /\ failure_patterns = <<>>
    /\ vehicle_data = <<>>
    /\ ulez_result = <<>>
    /\ today = FirstDay
    /\ vehicle_stats = <<>>
    /\ registration = <<>>
    /\ dvla_fetch = NotFetched
    /\ mot_fetch = NotFetched
    /\ response = <<>>

SpecPatterns == InitPatterns /\ [][NextPatterns]_vars

\* Registry records: exempt fuels in three letter cases, petrol, diesel in
\* two letter cases, heavy oil, two hybrids (one naming DIESEL), gas and no
\* fuel; Euro labels of up to MaxLabelLen characters, with no digit, one
\* digit or several; manufacture years on both sides of every threshold of
\* the year estimate, and no year.
FuelElectricity == <<"E", "L", "E", "C", "T", "R", "I", "C", "I", "T", "Y">>
FuelElectric == <<"E", "l", "e", "c", "t", "r", "i", "c">>
FuelPetrol == <<"P", "E", "T", "R", "O", "L">>
FuelDiesel == <<"D", "I", "E", "S", "E", "L">>
FuelHeavyOil == <<"H", "E", "A", "V", "Y", " ", "O", "I", "L">>
FuelHybridElectric == <<"H", "Y", "B", "R", "I", "D", " ", "E", "L", "E", "C", "T", "R", "I", "C">>

Fuels ==
    {<<>>, FuelElectricity, FuelElectric,
     <<"h", "y", "d", "r", "o", "g", "e", "n">>, FuelPetrol, FuelDiesel,
     <<"D", "i", "e", "s", "e", "l">>, FuelHeavyOil, FuelHybridElectric,
     <<"E", "L", "E", "C", "T", "R", "I", "C", " ", "D", "I", "E", "S", "E", "L">>,
     <<"G", "A", "S">>}

VehicleData ==
    {<<>>} \cup
    {<<[fuelType |-> f, euroStatus |-> e, yearOfManufacture |-> y]>> :
        f \in Fuels,
        e \in SeqsUpTo({"E", "0", "4", "5", "6"}, MaxLabelLen),
        y \in {0, 1996, 1997, 2000, 2001, 2005, 2006, 2008, 2009, 2010,
               2011, 2014, 2015, 2016}}

InitUlez ==
    /\ has_data = FALSE
    /\ mot_tests = <<>>
    /\ pc = "ready"
    /\ clocking_analysis = Unset
    /\ condition_score = <<>>
    /\ mileage_timeline = <<>>
    /\ failure_patterns = <<>>
    /\ vehicle_data \in VehicleData
    /\ ulez_result = <<>>
    /\ today = FirstDay
    /\ vehicle_stats = <<>>
    /\ registration = <<>>
    /\ dvla_fetch = NotFetched
    /\ mot_fetch = NotFetched
    /\ response = <<>>

SpecUlez == InitUlez /\ [][NextUlez]_vars

\* Histories to which one defect is added: a clean test, tests with one and
\* with two advisories, a failed test with a Major defect, a failed test
\* whose only defect has an unknown type, and a test whose defects come
\* under rfrAndComments.
MonotoneTests ==
    {Test(DateB, Miles20k, "PASSED", <<>>),
     Test(DateB, Miles20k, "PASSED", <<Defect("ADVISORY")>>),
     Test(DateB, Miles20k, "PASSED", <<Defect("ADVISORY"), Defect("ADVISORY")>>),
     Test(DateA, Miles20k, "FAILED", <<Defect("MAJOR")>>),
     Test(DateB, NoneValue, "FAILED", <<Defect("PRS")>>),
     [Test(DateA, Miles20k, "PASSED", <<>>)
        EXCEPT !.rfrAndComments = <<Defect("MINOR"), Defect("advisory")>>]}

InitMonotone ==
    /\ has_data \in BOOLEAN
    /\ mot_tests \in SeqsUpTo(MonotoneTests, MaxMonotoneTests)
    /\ has_data = FALSE => mot_tests = <<>>
    /\ pc = "ready"
    /\ clocking_analysis = Unset
    /\ condition_score = <<>>
    /\ mileage_timeline = <<>>
    /\ failure_patterns = <<>>
    /\ vehicle_data = <<>>
    /\ ulez_result = <<>>
    /\ today = FirstDay
    /\ vehicle_stats = <<>>
    /\ registration = <<>>
    /\ dvla_fetch = NotFetched
    /\ mot_fetch = NotFetched
    /\ response = <<>>

SpecMonotone == InitMonotone /\ [][NextScore]_vars

\* Histories with malformed records: next to a well-formed test, a record
\* without completedDate (with and without odometer), one whose
\* completedDate is None, one whose testResult is None, one with a defect
\* whose type is None, one with a defect without type, and records with an
\* unparsable odometer, an unparsable date and no testResult.
MalformedTests ==
    {Test(DateA, Miles20k, "PASSED", <<>>),
     Test(AbsentDate, Miles20k, "PASSED", <<>>),
     Test(AbsentDate, NoneValue, "PASSED", <<>>),
     Test(NullDate, Miles20k, "PASSED", <<>>),
     Test(DateB, Miles20k, NullText, <<>>),
     Test(DateB, Miles20k, "PASSED", <<Defect(NullText)>>),
     Test(DateB, Miles20k, "PASSED", <<Defect("")>>),
     Test(DateB, Str(<<10, 10>>), "PASSED", <<>>),
     Test(Date(2023, 1, 15, 46), Miles20k, "PASSED", <<>>),
     Test(DateB, NoneValue, "", <<>>)}

InitMalformed ==
    /\ has_data \in BOOLEAN
    /\ mot_tests \in SeqsUpTo(MalformedTests, MaxMalformedTests)
    /\ has_data = FALSE => mot_tests = <<>>
    /\ pc = "ready"
    /\ clocking_analysis = Unset
    /\ condition_score = <<>>
    /\ mileage_timeline = <<>>
    /\ failure_patterns = <<>>
    /\ vehicle_data = <<>>
    /\ ulez_result = <<>>
    /\ today = FirstDay
    /\ vehicle_stats = <<>>
    /\ registration = <<>>
    /\ dvla_fetch = NotFetched
    /\ mot_fetch = NotFetched
    /\ response = <<>>

\* the call made on a history with malformed records
NextMalformed == Analyze

SpecMalformed == InitMalformed /\ [][NextMalformed]_vars

\* Registry records for the stats: a 2018 petrol car whose MOT expires the
\* day after FirstDay, whose tax is due 30 days after it and whose V5C was
\* issued 90 days before it; a record without year and month, with an MOT
\* expiry date in the dotted format, no tax date and a V5C issued 365 days
\* before FirstDay.
RegistryRecord(fuel, euro, year, month, mot_expiry, tax_due, v5c) ==
    [fuelType |-> fuel, euroStatus |-> euro, yearOfManufacture |-> year,
     monthOfFirstRegistration |-> month, motExpiryDate |-> mot_expiry,
     taxDueDate |-> tax_due, dateOfLastV5CIssued |-> v5c]

EuroSix == <<"E", "u", "r", "o", " ", "6">>

StatsVehicles ==
    {<<>>,
     <<RegistryRecord(FuelPetrol, EuroSix, 2018, "2018-03",
                      Date(2025, 12, 31, Hyphen), Date(2026, 1, 29, Hyphen),
                      Date(2025, 10, 1, Hyphen))>>,
     <<RegistryRecord(FuelDiesel, <<>>, 0, "",
                      Date(2025, 12, 31, 46), NullDate,
                      Date(2024, 12, 30, Hyphen))>>}

\* Test lists for the defect totals: none, and a failed test with a Major
\* defect followed by a test with a Minor defect and an advisory under
\* rfrAndComments.
StatsTests ==
    {<<>>,
     <<Test(DateA, Miles20k, "FAILED", <<Defect("MAJOR")>>),
       [Test(DateB, Miles20k, "PASSED", <<>>)
          EXCEPT !.rfrAndComments = <<Defect("MINOR"), Defect("advisory")>>]>>}

\* Timeline entries: readings 1461 days (four years) apart whose difference
\* is at and one mile below 20,000 / 40,000 / 60,000 miles (an average of
\* 5,000 / 10,000 / 15,000 miles a year), a difference of 2 miles (an
\* average of 0.5), a first reading above the last, and a reading whose date
\* is in the dotted format.
Reading(date, miles) == [date |-> date, miles |-> miles, unit |-> "mi"]

StatsReadings ==
    {Reading(DateA, 10000), Reading(DateA, 70000), Reading(DateC, 10000),
     Reading(DateC, 10002), Reading(DateC, 29999), Reading(DateC, 30000),
     Reading(DateC, 49999), Reading(DateC, 50000), Reading(DateC, 69999),
     Reading(DateC, 70000), Reading(Date(2024, 1, 15, 46), 30000)}

InitStats ==
    /\ mot_tests \in StatsTests
    /\ has_data = (mot_tests # <<>>)
    /\ pc = "ready"
    /\ clocking_analysis = Unset
    /\ condition_score = <<>>
    /\ mileage_timeline \in SeqsUpTo(StatsReadings, MaxReadings)
    /\ failure_patterns = <<>>
    /\ vehicle_data \in StatsVehicles
    /\ ulez_result = <<>>
    /\ today = FirstDay
    /\ vehicle_stats = <<>>
    /\ registration = <<>>
    /\ dvla_fetch = NotFetched
    /\ mot_fetch = NotFetched
    /\ response = <<>>

SpecStats == InitStats /\ [][NextStats]_vars

(***************************************************************************)
(* run_free_check (orchestrator.py).  A fetch ends with data, with nothing *)
(* (None, or an empty dict or list) or with an exception; its data is an   *)
(* optional value, for the MOT history the motTests of the first entry.    *)
(***************************************************************************)
\* str.replace(" ", "")
RECURSIVE RemoveSpaces(_)
RemoveSpaces(chars) ==
    IF chars = <<>> THEN <<>>
    ELSE (IF Head(chars) = " " THEN <<>> ELSE <<Head(chars)>>)
         \o RemoveSpaces(Tail(chars))

\* line 74: registration.upper().replace(" ", "")
CleanReg(reg) == RemoveSpaces(UpperChars(reg))

\* str.strip() of blanks
RECURSIVE Strip(_)
Strip(chars) ==
    IF chars = <<>> THEN <<>>
    ELSE IF Head(chars) = " " THEN Strip(Tail(chars))
    ELSE IF chars[Len(chars)] = " " THEN Strip(SubSeq(chars, 1, Len(chars) - 1))
    ELSE chars

\* demo.py: the entries DEMO1 (lines 16-88) and DEMO3 (lines 229-280) of
\* DEMO_VEHICLES, as registry record and motTests
DEMO_VEHICLES ==
    [key \in {<<"D", "E", "M", "O", "1">>, <<"D", "E", "M", "O", "3">>} |->
        IF key = <<"D", "E", "M", "O", "1">>
        THEN [dvla |-> RegistryRecord(FuelPetrol, EuroSix, 2019, "2019-03",
                                      Date(2026, 9, 15, Hyphen),
                                      Date(2026, 8, 1, Hyphen),
                                      Date(2023, 6, 10, Hyphen)),
              mot |-> <<Test(Date(2022, 9, 20, Hyphen), Str(<<1, 8, 5, 0, 0>>),
                             "PASSED",
                             <<TextDefect("ADVISORY",
                                 <<"F", "r", "o", "n", "t", " ", "b",
                                   "r", "a", "k", "e", " ", "d", "i",
                                   "s", "c", " ", "w", "o", "r", "n",
                                   " ", "b", "u", "t", " ", "a", "b",
                                   "o", "v", "e", " ", "l", "e", "g",
                                   "a", "l", " ", "l", "i", "m", "i",
                                   "t">>)>>),
                        Test(Date(2023, 9, 18, Hyphen), Str(<<2, 5, 2, 0, 0>>),
                             "PASSED",
                             <<TextDefect("ADVISORY",
                                 <<"N", "e", "a", "r", "s", "i", "d",
                                   "e", " ", "f", "r", "o", "n", "t",
                                   " ", "t", "y", "r", "e", " ", "s",
                                   "l", "i", "g", "h", "t", "l", "y",
                                   " ", "w", "o", "r", "n">>)>>),
                        Test(Date(2024, 9, 15, Hyphen), Str(<<3, 2, 1, 0, 0>>),
                             "PASSED", <<>>),
                        Test(Date(2025, 9, 12, Hyphen), Str(<<3, 9, 4, 0, 0>>),
                             "PASSED",
                             <<TextDefect("ADVISORY",
                                 <<"R", "e", "a", "r", " ", "b", "r",
                                   "a", "k", "e", " ", "p", "a", "d",
                                   "s", " ", "w", "e", "a", "r", "i",
                                   "n", "g", " ", "b", "u", "t", " ",
                                   "a", "b", "o", "v", "e", " ", "l",
                                   "e", "g", "a", "l", " ", "l", "i",
                                   "m", "i", "t">>)>>)>>]
        ELSE [dvla |-> RegistryRecord(FuelElectricity, <<>>, 2022, "2022-04",
                                      Date(2026, 10, 5, Hyphen),
                                      Date(2026, 12, 1, Hyphen),
                                      Date(2022, 4, 20, Hyphen)),
              mot |-> <<Test(Date(2025, 4, 18, Hyphen), Str(<<2, 8, 5, 0, 0>>),
                             "PASSED", <<>>),
                        Test(Date(2025, 10, 2, Hyphen), Str(<<3, 4, 2, 0, 0>>),
                             "PASSED",
                             <<TextDefect("ADVISORY",
                                 <<"N", "e", "a", "r", "s", "i", "d",
                                   "e", " ", "f", "r", "o", "n", "t",
                                   " ", "t", "y", "r", "e", " ", "s",
                                   "l", "i", "g", "h", "t", "l", "y",
                                   " ", "w", "o", "r", "n", " ", "o",
                                   "n", " ", "i", "n", "n", "e", "r",
                                   " ", "e", "d", "g", "e">>)>>)>>]]

\* demo.py lines 2648-2650: DEMO_VEHICLES.get(registration.upper().strip())
GetDemoData(reg) ==
    LET key == Strip(UpperChars(reg))
    IN  IF key \in DOMAIN DEMO_VEHICLES THEN <<DEMO_VEHICLES[key]>> ELSE <<>>

\* lines 84-90: the value of a fetch after an exception is replaced by None
Fetched(fetch) == IF fetch.kind = "data" THEN fetch.data ELSE <<>>

\* variant: the demo data is used as soon as one of the fetches has nothing
UseDemoIfEitherMissing(dvla, mot) == dvla = <<>> \/ mot = <<>>

\* line 93: if not dvla_data and not mot_data
UseDemo(dvla, mot) == dvla = <<>> /\ mot = <<>>

\* lines 109-113
DataSources(dvla_data, mot_data) ==
    (IF dvla_data # <<>> THEN <<"DVLA VES API">> ELSE <<>>)
    \o (IF mot_data # <<>> THEN <<"DVSA MOT History API">> ELSE <<>>)

\* lines 295-315 and 148-151: the source names the provenance step can add;
\* a DEMO registration takes the demo provenance (the keys of
\* DEMO_PROVENANCE are DEMO1, DEMO2 and DEMO3), any other registration has
\* none unless the One Auto client is configured
ProvenanceSources(clean_reg) ==
    IF Len(clean_reg) >= 4 /\ SubSeq(clean_reg, 1, 4) = <<"D", "E", "M", "O">>
    THEN {IF UpperChars(clean_reg) \in
                 {<<"D", "E", "M", "O", "1">>, <<"D", "E", "M", "O", "2">>,
                  <<"D", "E", "M", "O", "3">>}
          THEN <<"Provenance Check (Demo)">> ELSE <<>>}
    ELSE {<<>>, <<"Experian via One Auto API">>}

\* lines 183-203
BuildVehicleIdentity(dvla_data) ==
    IF dvla_data = <<>> THEN <<>>
    ELSE LET d == dvla_data[1]
         IN  <<[fuel_type |-> d.fuelType,
                year_of_manufacture |-> d.yearOfManufacture,
                euro_status |-> d.euroStatus,
                tax_due_date |-> d.taxDueDate,
                mot_expiry_date |-> d.motExpiryDate,
                date_of_last_v5c_issued |-> d.dateOfLastV5CIssued]>>

\* analyzer.py lines 437-461 and orchestrator.py lines 205-223: the counts
\* of the summary
BuildSummary(tests) ==
    [total_tests |-> Len(tests),
     total_passes |->
         Cardinality({i \in 1..Len(tests) : tests[i].testResult = "PASSED"}),
     total_failures |->
         Cardinality({i \in 1..Len(tests) : tests[i].testResult = "FAILED"})]

\* run_free_check(registration), lines 69-181: both fetches have ended; the
\* analysis, the zones and the stats are computed from the data at hand and
\* the response is assembled.  The registry record, the analysis and the
\* zone result are also kept on the orchestrator (lines 104-106).
RunFreeCheck ==
    /\ pc = "ready"
    /\ registration # <<>>
    /\ LET clean_reg == CleanReg(registration)
           fetched_dvla == Fetched(dvla_fetch)
           fetched_mot == Fetched(mot_fetch)
           demo == IF UseDemo(fetched_dvla, fetched_mot)
                   THEN GetDemoData(clean_reg) ELSE <<>>
           dvla_data == IF demo # <<>> THEN <<demo[1].dvla>> ELSE fetched_dvla
           mot_data == IF demo # <<>> THEN <<demo[1].mot>> ELSE fetched_mot
           tests == IF mot_data = <<>> THEN <<>> ELSE mot_data[1]
       IN  IF mot_data # <<>> /\ AnalyzeRaises(tests)
           THEN /\ pc' = "raised"
                /\ UNCHANGED <<clocking_analysis, condition_score,
                               mileage_timeline, failure_patterns,
                               vehicle_data, ulez_result, vehicle_stats,
                               response>>
           ELSE LET sorted_tests == SortedTests(tests)
                    clocking == IF tests = <<>> THEN EmptyClocking
                                ELSE DetectClocking(sorted_tests)
                    timeline == BuildMileageTimeline(sorted_tests)
                    patterns == IF tests = <<>> THEN <<>>
                                ELSE AnalyzeFailurePatterns(sorted_tests)
                    scores == IF tests = <<>> THEN {EmptyResultScore}
                              ELSE {<<s>> : s \in ConditionScores(sorted_tests)}
                    ulez == CalculateUlezCompliance(dvla_data)
                IN  /\ pc' = "checked"
                    /\ clocking_analysis' = clocking
                    /\ mileage_timeline' = timeline
                    /\ failure_patterns' = patterns
                    /\ vehicle_data' = dvla_data
                    /\ ulez_result' = ulez
                    /\ \E score \in scores,
                          stats \in CalculateVehicleStats(dvla_data, sorted_tests,
                                                          timeline, today),
                          provenance \in ProvenanceSources(clean_reg) :
                          /\ condition_score' = score
                          /\ vehicle_stats' = stats
                          /\ response' =
                                <<[registration |-> clean_reg,
                                   vehicle |-> BuildVehicleIdentity(dvla_data),
                                   mot_summary |->
                                       IF mot_data = <<>> THEN <<>>
                                       ELSE <<BuildSummary(sorted_tests)>>,
                                   clocking_analysis |-> clocking,
                                   condition_score |-> score,
                                   mileage_timeline |-> timeline,
                                   failure_patterns |-> patterns,
                                   ulez_compliance |-> ulez,
                                   vehicle_stats |->
                                       IF stats = NoStats THEN <<>>
                                       ELSE <<stats>>,
                                   data_sources |->
                                       DataSources(dvla_data, mot_data)
                                       \o provenance]>>
    /\ UNCHANGED <<has_data, mot_tests, today, registration, dvla_fetch,
                   mot_fetch>>

\* the free check of one registration
NextCheck == RunFreeCheck

\* Registrations: the one of the orchestrator tests, as typed and in lower
\* case with a blank, and the demo registrations DEMO1 (also in lower case
\* with a blank) and DEMO3.
CheckRegistrations ==
    {<<"A", "B", "1", "2", "C", "D", "E">>,
     <<"a", "b", "1", "2", " ", "c", "d", "e">>,
     <<"D", "E", "M", "O", "1">>,
     <<"d", "e", "m", "o", " ", "1">>,
     <<"D", "E", "M", "O", "3">>}

\* MOCK_DVLA_RESPONSE: a 2018 petrol car with euroStatus "Euro 6"
MOCK_DVLA_RESPONSE ==
    RegistryRecord(FuelPetrol, EuroSix, 2018, "", Date(2025, 6, 15, Hyphen),
                   Date(2025, 3, 1, Hyphen), Date(2023, 5, 10, Hyphen))

\* MOCK_MOT_RESPONSE: three passed tests at 25,000 / 32,000 / 39,000 miles,
\* the second with an advisory
MOCK_MOT_RESPONSE ==
    <<Test(Date(2021, 3, 20, Hyphen), Str(<<2, 5, 0, 0, 0>>), "PASSED", <<>>),
      Test(Date(2022, 3, 18, Hyphen), Str(<<3, 2, 0, 0, 0>>), "PASSED",
           <<TextDefect("ADVISORY",
               <<"T", "y", "r", "e", " ", "s", "l", "i", "g", "h", "t", "l", "y", " ", "w", "o", "r", "n", " ", "o", "n", " ", "e", "d", "g", "e">>)>>),
      Test(Date(2023, 3, 15, Hyphen), Str(<<3, 9, 0, 0, 0>>), "PASSED", <<>>)>>

\* What the registry fetch can end with: the mock record, a 2012 diesel
\* without Euro status, an electric car, nothing, an exception.
DvlaOutcomes ==
    {[kind |-> "data", data |-> <<MOCK_DVLA_RESPONSE>>],
     [kind |-> "data",
      data |-> <<RegistryRecord(FuelDiesel, <<>>, 2012, "2012-06", NullDate,
                                NullDate, NullDate)>>],
     [kind |-> "data",
      data |-> <<RegistryRecord(FuelElectricity, <<>>, 2022, "", NullDate,
                                NullDate, NullDate)>>],
     [kind |-> "none", data |-> <<>>],
     [kind |-> "error", data |-> <<>>]}

\* What the MOT fetch can end with: the mock history, the mock history
\* newest first, a vehicle entry without tests, a history whose odometer
\* falls from 60,000 to 20,000 miles with a failed test, nothing, an
\* exception.
MotOutcomes ==
    {[kind |-> "data", data |-> <<MOCK_MOT_RESPONSE>>],
     [kind |-> "data",
      data |-> <<<<MOCK_MOT_RESPONSE[3], MOCK_MOT_RESPONSE[2],
                   MOCK_MOT_RESPONSE[1]>>>>],
     [kind |-> "data", data |-> <<<<>>>>],
     [kind |-> "data",
      data |-> <<<<Test(DateA, Str(<<6, 0, 0, 0, 0>>), "PASSED", <<>>),
                   Test(DateB, Miles20k, "FAILED", <<Defect("MAJOR")>>)>>>>],
     [kind |-> "none", data |-> <<>>],
     [kind |-> "error", data |-> <<>>]}

InitCheck ==
    /\ has_data = FALSE
    /\ mot_tests = <<>>
    /\ pc = "ready"
    /\ clocking_analysis = Unset
    /\ condition_score = <<>>
    /\ mileage_timeline = <<>>
    /\ failure_patterns = <<>>
    /\ vehicle_data = <<>>
    /\ ulez_result = <<>>
    /\ today = FirstDay
    /\ vehicle_stats = <<>>
    /\ registration \in CheckRegistrations
    /\ dvla_fetch \in DvlaOutcomes
    /\ mot_fetch \in MotOutcomes
    /\ response = <<>>

SpecCheck == InitCheck /\ [][NextCheck]_vars

(***************************************************************************)
(* Properties.                                                             *)
(***************************************************************************)
\* the list _detect_clocking / _calculate_condition_score received
Seen == IF pc = "analyzed" THEN SortedTests(mot_tests) ELSE mot_tests

ClockingDone == pc \in {"analyzed", "detected"}
ScoreDone == pc \in {"analyzed", "scored"}

\* the readings of the call: date and miles of the tests whose odometer is a
\* string of digits
SeenReadings == Readings(Seen)
PairsOf(R) == 1..(Len(R) - 1)

Flags == clocking_analysis.flags
FlagsOfType(F, type) == {k \in 1..Len(F) : F[k].type = type}
FlagsOfSeverity(F, sev) == {k \in 1..Len(F) : F[k].severity = sev}

BothDatesParse(R, i) == Parses(R[i].date) /\ Parses(R[i + 1].date)
PairDays(R, i) == Ordinal(R[i + 1].date) - Ordinal(R[i].date)
PairDelta(R, i) == R[i + 1].miles - R[i].miles

\* (later - earlier) / (days / 365.25) > 30000 on a pair a positive number of
\* days apart
PairRateAbove30000(R, i) ==
    /\ BothDatesParse(R, i)
    /\ PairDays(R, i) > 0
    /\ PairDelta(R, i) * 1461 > 30000 * 4 * PairDays(R, i)

NonDecreasing(R) == \A i \in PairsOf(R) : PairDelta(R, i) >= 0

\* first-to-last span positive, average below 2,220 miles/year, last reading
\* above 10,000 miles
SuspiciouslyLow(R) ==
    /\ Len(R) >= 1
    /\ LET first == R[1]
           last == R[Len(R)]
           span == Ordinal(last.date) - Ordinal(first.date)
       IN  /\ Parses(first.date) /\ Parses(last.date)
           /\ span > 0
           /\ (last.miles - first.miles) * 1461 < 2220 * 4 * span
           /\ last.miles > 10000

\* C1 as stated: a history of at least two readings, non-decreasing and with
\* no consecutive pair above 30,000 miles/year, has risk_level none and no
\* flags.
C1_Original ==
    pc = "analyzed" =>
        LET R == SeenReadings
        IN  (Len(R) >= 2 /\ NonDecreasing(R)
                /\ \A i \in PairsOf(R) : ~PairRateAbove30000(R, i))
            => (clocking_analysis.risk_level = "none" /\ Flags = <<>>)

\* C1 as amended: a history of at least two readings, non-decreasing in the
\* order analyze sorts them, with no consecutive pair above 30,000 miles/year
\* and whose overall average is not suspiciously low, has risk_level none,
\* clocked false and no flags.
C1_SmoothHistoryHasNoFlags ==
    pc = "analyzed" =>
        LET R == SeenReadings
        IN  (Len(R) >= 2 /\ NonDecreasing(R)
                /\ (\A i \in PairsOf(R) : ~PairRateAbove30000(R, i))
                /\ ~SuspiciouslyLow(R))
            => (/\ clocking_analysis.risk_level = "none"
                /\ clocking_analysis.clocked = FALSE
                /\ Flags = <<>>)

\* a rising history of three readings over parseable dates without flags
C1_Witness ==
    /\ pc = "analyzed"
    /\ LET R == SeenReadings
       IN  /\ Len(R) = 3
           /\ \A i \in PairsOf(R) :
                 PairDelta(R, i) > 0 /\ BothDatesParse(R, i) /\ PairDays(R, i) > 0
    /\ clocking_analysis.risk_level = "none"
    /\ Flags = <<>>

\* the two test dates are at most 14 days apart
PairWithin14Days(R, i) ==
    BothDatesParse(R, i) /\ PairDays(R, i) >= -14 /\ PairDays(R, i) <= 14

DropExpected(R, i) ==
    /\ PairDelta(R, i) < 0
    /\ ~(0 - PairDelta(R, i) < 200 /\ PairWithin14Days(R, i))

IsDropFlagFor(f, R, i) ==
    /\ f.type = "mileage_drop"
    /\ f.severity = "high"
    /\ f.from_date = R[i].date
    /\ f.to_date = R[i + 1].date
    /\ f.drop_amount = R[i].miles - R[i + 1].miles

\* C2: every consecutive pair whose later reading is lower yields exactly one
\* high-severity mileage_drop flag with drop_amount = earlier - later, except
\* when the drop is under 200 miles and the dates are at most 14 days apart;
\* then, and only then, the pair yields no drop flag.
C2_DropFlagPerDroppingPair ==
    ClockingDone =>
        LET R == SeenReadings
            F == Flags
        IN  /\ Cardinality(FlagsOfType(F, "mileage_drop"))
                 = Cardinality({i \in PairsOf(R) : DropExpected(R, i)})
            /\ \A i \in PairsOf(R) :
                   DropExpected(R, i)
                       => \E k \in 1..Len(F) : IsDropFlagFor(F[k], R, i)
            /\ \A k \in FlagsOfType(F, "mileage_drop") :
                   \E i \in PairsOf(R) :
                       DropExpected(R, i) /\ IsDropFlagFor(F[k], R, i)

\* one pair drops by 200 or more and is flagged, the next drops by less than
\* 200 within 14 days and is not
C2_Witness ==
    /\ pc = "analyzed"
    /\ LET R == SeenReadings
       IN  /\ Len(R) = 3
           /\ DropExpected(R, 1)
           /\ PairDelta(R, 2) < 0 /\ ~DropExpected(R, 2)
    /\ Cardinality(FlagsOfType(Flags, "mileage_drop")) = 1

OdometerParses(t) ==
    /\ t.odometerValue.isNone = FALSE
    /\ Len(t.odometerValue.chars) >= 1
    /\ \A j \in 1..Len(t.odometerValue.chars) : t.odometerValue.chars[j] <= 9

TestsWithOdometer == {i \in 1..Len(mot_tests) : OdometerParses(mot_tests[i])}

\* C4: the clocking analysis is the insufficient-evidence result (unknown,
\* not clocked, no flags) exactly when fewer than two tests carry a parseable
\* odometer, missing data and an empty test list included.
C4_FewerThanTwoReadingsUnknown ==
    ClockingDone =>
        LET n == Cardinality(TestsWithOdometer)
        IN  /\ n < 2
                => clocking_analysis
                     = [clocked |-> FALSE, risk_level |-> "unknown", flags |-> <<>>]
            /\ n >= 2 => clocking_analysis.risk_level # "unknown"

\* three tests, only one of them with a parseable odometer
C4_Witness ==
    /\ pc = "analyzed"
    /\ Len(mot_tests) = 3
    /\ Cardinality(TestsWithOdometer) = 1
    /\ \E i \in 1..3 : mot_tests[i].odometerValue.isNone
    /\ \E i \in 1..3 : ~mot_tests[i].odometerValue.isNone
                         /\ ~OdometerParses(mot_tests[i])
    /\ clocking_analysis.risk_level = "unknown"

IsJumpFlagFor(f, R, i) ==
    /\ f.type = "improbable_jump"
    /\ f.severity = "medium"
    /\ f.from_date = R[i].date
    /\ f.to_date = R[i + 1].date

\* C5: a consecutive pair yields exactly one medium improbable_jump flag if
\* and only if its dates are a positive number of days apart and
\* (later - earlier) / (days / 365.25) > 30,000; same-day and reversed pairs
\* yield none.
C5_JumpFlagIffRateAbove ==
    ClockingDone =>
        LET R == SeenReadings
            F == Flags
        IN  /\ Cardinality(FlagsOfType(F, "improbable_jump"))
                 = Cardinality({i \in PairsOf(R) : PairRateAbove30000(R, i)})
            /\ \A i \in PairsOf(R) :
                   PairRateAbove30000(R, i)
                       => \E k \in 1..Len(F) : IsJumpFlagFor(F[k], R, i)
            /\ \A k \in FlagsOfType(F, "improbable_jump") :
                   \E i \in PairsOf(R) :
                       PairRateAbove30000(R, i) /\ IsJumpFlagFor(F[k], R, i)

\* a rise over a pair with reversed dates gets no flag, the rise of the next
\* pair (40,000 miles in 14 days) gets the only one
C5_Witness ==
    /\ pc = "detected"
    /\ LET R == SeenReadings
       IN  /\ Len(R) = 3
           /\ BothDatesParse(R, 1) /\ PairDays(R, 1) < 0 /\ PairDelta(R, 1) > 0
           /\ PairRateAbove30000(R, 2)
    /\ Cardinality(FlagsOfType(Flags, "improbable_jump")) = 1

\* a pair at exactly 30,000 miles/year (40,000 miles in 487 days): no flag
C5_WitnessAtLimit ==
    /\ pc = "analyzed"
    /\ LET R == SeenReadings
       IN  \E i \in PairsOf(R) :
              /\ BothDatesParse(R, i)
              /\ PairDays(R, i) = 487 /\ PairDelta(R, i) = 40000
    /\ FlagsOfType(Flags, "improbable_jump") = {}

\* C6: there is one suspiciously_low flag, of severity low, when the
\* first-to-last span is positive, the overall average is below 2,220
\* miles/year and the last reading is above 10,000 miles, and none otherwise.
C6_LowFlagIffBelowNorm ==
    ClockingDone =>
        /\ Cardinality(FlagsOfType(Flags, "suspiciously_low"))
             = (IF SuspiciouslyLow(SeenReadings) THEN 1 ELSE 0)
        /\ \A k \in FlagsOfType(Flags, "suspiciously_low") :
               Flags[k].severity = "low"

\* 100 miles in 487 days ending at 10,100 miles: flagged, risk low
C6_Witness ==
    /\ pc = "analyzed"
    /\ LET R == SeenReadings
       IN  /\ Len(R) = 2
           /\ R[2].miles = 10100 /\ PairDelta(R, 1) = 100 /\ PairDays(R, 1) = 487
    /\ Cardinality(FlagsOfType(Flags, "suspiciously_low")) = 1
    /\ clocking_analysis.risk_level = "low"

Score == condition_score[1]

DangerousCount(t) ==
    Cardinality({j \in 1..Len(t.defects) : t.defects[j].type = "DANGEROUS"})

\* C7: for every non-empty history the condition score is an integer in
\* [0,100]; a single test with four or more Dangerous defects scores 0.
C7_ScoreWithinRange ==
    (ScoreDone /\ mot_tests # <<>>) =>
        /\ Len(condition_score) = 1
        /\ Score \in 0..100
        /\ (Len(mot_tests) = 1 /\ DangerousCount(mot_tests[1]) >= 4) => Score = 0

\* a single test with four Dangerous defects and a mileage deduction: the sum
\* is negative, the score is 0
C7_Witness ==
    /\ pc = "analyzed"
    /\ Len(mot_tests) = 1
    /\ DangerousCount(mot_tests[1]) = 4
    /\ RawScore10(Seen) < 0
    /\ Score = 0

\* the values the sum of the deductions gives when no cap is applied
UncappedScores ==
    {Max(0, Min(100, r)) : r \in RoundOutcomes(RawScore10(Seen), HasInexactTerm(Seen))}

\* C8: a history of one test never scores above 85, one of two tests never
\* above 92; a sum at or below the cap, and any sum of a history of three or
\* more tests, is scored as without the cap.
C8_HistoryLengthCap ==
    (ScoreDone /\ mot_tests # <<>>) =>
        /\ Len(mot_tests) = 1 => Score <= 85
        /\ Len(mot_tests) = 2 => Score <= 92
        /\ (Len(mot_tests) = 1 /\ RawScore10(Seen) <= 850) => Score \in UncappedScores
        /\ (Len(mot_tests) = 2 /\ RawScore10(Seen) <= 920) => Score \in UncappedScores
        /\ Len(mot_tests) >= 3 => Score \in UncappedScores

\* one test at 97 points before the cap scores 85
C8_Witness ==
    /\ pc = "analyzed"
    /\ Len(mot_tests) = 1
    /\ RawScore10(Seen) = 970
    /\ Score = 85

\* two tests at 80 points before the cap keep their 80
C8_WitnessBelowCap ==
    /\ pc = "analyzed"
    /\ Len(mot_tests) = 2
    /\ RawScore10(Seen) = 800
    /\ Score = 80

\* every test passed and carries no defect
CleanHistory ==
    \A i \in 1..Len(mot_tests) :
        /\ mot_tests[i].testResult = "PASSED"
        /\ mot_tests[i].defects = <<>>
        /\ mot_tests[i].rfrAndComments = <<>>

\* the latest odometer is at least 1.5 times the expected mileage
\* ((days between first and last test) / 365.25 + 3) * 7400
MileageAtLeastExpected ==
    LET first == Seen[1]
        last == Seen[Len(Seen)]
    IN  /\ Parses(first.completedDate) /\ Parses(last.completedDate)
        /\ OdometerParses(last)
        /\ LET days == Ordinal(last.completedDate) - Ordinal(first.completedDate)
               miles == IntOf(last.odometerValue.chars)
           IN  /\ 4 * days + 4383 > 0
               /\ miles * 2 * 1461 >= 3 * 7400 * (4 * days + 4383)

\* C9 as stated: three or more clean tests score exactly 100.
C9_Original ==
    (pc = "analyzed" /\ Len(mot_tests) >= 3 /\ CleanHistory) => Score = 100

\* C9 as amended: three or more clean tests score exactly 100 unless the
\* latest odometer is at least 1.5 times the expected mileage.
C9_CleanHistoryScores100 ==
    (ScoreDone /\ Len(mot_tests) >= 3 /\ CleanHistory /\ ~MileageAtLeastExpected)
        => Score = 100

\* three clean tests over three years, the last at 20,000 miles
C9_Witness ==
    /\ pc = "analyzed"
    /\ Len(mot_tests) = 3
    /\ CleanHistory
    /\ Seen[1].completedDate # Seen[3].completedDate
    /\ Score = 100

\* C10: analyze() on missing data or on an empty motTests list returns the
\* condition_score that _calculate_condition_score returns for an empty list,
\* 50.
C10_NoHistoryNeutralScore ==
    (pc = "analyzed" /\ (~has_data \/ mot_tests = <<>>))
        => (condition_score = <<50>> /\ ConditionScores(<<>>) = {50})

\* the values _calculate_condition_score returns for a pre-cap sum of raw10
\* tenths over a history S
ScoresFrom(raw10, S) ==
    LET capped == HistoryCap10(Len(S), raw10)
    IN  {Clamp(r) : r \in RoundOutcomes(capped, HasInexactTerm(S) /\ capped = raw10)}

\* severity points of a defect type
SeverityPoints(type) ==
    CASE Upper(type) = "DANGEROUS" -> 25
      [] Upper(type) = "MAJOR" -> 15
      [] Upper(type) = "MINOR" -> 5
      [] Upper(type) = "ADVISORY" -> 3
      [] OTHER -> 0

\* recency weight in tenths of the test k places behind the newest
WeightFromNewest10(k) ==
    CASE k = 0 -> 10
      [] k = 1 -> 8
      [] k = 2 -> 6
      [] OTHER -> 3

RECURSIVE PointsOfDefects(_)
PointsOfDefects(defects) ==
    IF defects = <<>> THEN 0
    ELSE SeverityPoints(Head(defects).type) + PointsOfDefects(Tail(defects))

\* the sum over all defects of severity points times the weight of the test
RECURSIVE DefectPoints10(_, _)
DefectPoints10(S, i) ==
    IF i > Len(S) THEN 0
    ELSE PointsOfDefects(DefectsOf(S[i])) * WeightFromNewest10(Len(S) - i)
         + DefectPoints10(S, i + 1)

AllPassed(S) == [i \in 1..Len(S) |-> [S[i] EXCEPT !.testResult = "PASSED"]]

FailedTests(S) == {i \in 1..Len(S) : S[i].testResult \in {"FAILED", "failed"}}

\* C12: each failed test lowers the pre-cap score by exactly 8 points,
\* whatever its position in the history and whatever defects it carries: the
\* score is that of the same history with every test passed, less 8 per
\* failed test.
C12_FailedTestCostsEight ==
    (ScoreDone /\ mot_tests # <<>>) =>
        LET S == Seen
        IN  Score \in ScoresFrom(RawScore10(AllPassed(S))
                                 - 80 * Cardinality(FailedTests(S)), S)

\* three tests, the oldest and the newest failed, the middle one clean: 16
\* points for the two failures
C12_Witness ==
    /\ pc = "analyzed"
    /\ Len(mot_tests) = 3
    /\ LET S == Seen
       IN  /\ FailedTests(S) = {1, 3}
           /\ S[3].defects = <<Defect("PRS")>>
           /\ RawScore10(S) = RawScore10(AllPassed(S)) - 160
           /\ Score \in ScoresFrom(RawScore10(S), S)
           /\ Score < 100 - 16

\* the mileage-vs-age comparison is defined: both dates parse, the latest
\* odometer is a number
MileageKnown(S) ==
    /\ Parses(S[1].completedDate) /\ Parses(S[Len(S)].completedDate)
    /\ OdometerParses(S[Len(S)])

\* 4 * 365.25 * (days / 365.25 + 3), days between first and last test
Age1461(S) == 4 * (Ordinal(S[Len(S)].completedDate) - Ordinal(S[1].completedDate)) + 4383

LatestMiles(S) == IntOf(S[Len(S)].odometerValue.chars)

\* actual / expected > num / 2, expected = age in years * 7400 (positive)
RatioAbove(S, num) ==
    /\ Age1461(S) > 0
    /\ 2 * LatestMiles(S) * 1461 > num * 7400 * Age1461(S)

\* the deduction of the claim in tenths
ExpectedMileageDeduction10(S) ==
    IF MileageKnown(S) /\ RatioAbove(S, 4) THEN 100
    ELSE IF MileageKnown(S) /\ RatioAbove(S, 3) THEN 50
    ELSE 0

\* C13: with expected = (days between first and last test / 365.25 + 3) *
\* 7400 and actual = the latest odometer, 10 points are taken when
\* actual/expected > 2.0, 5 when it is > 1.5 and <= 2.0, nothing otherwise,
\* never both; a single passed test at 37,000 miles with one Dangerous
\* defect scores 70.
C13_MileageVsAgeDeduction ==
    (ScoreDone /\ mot_tests # <<>>) =>
        LET S == Seen
        IN  /\ Score \in ScoresFrom(1000 + DefectDeduction10(S, 1) - Failures(S) * 80
                                    - ExpectedMileageDeduction10(S)
                                    + TrendAdjustment10(S), S)
            /\ (/\ Len(S) = 1
                /\ S[1].odometerValue = Miles37k
                /\ S[1].testResult = "PASSED"
                /\ S[1].defects = <<Defect("DANGEROUS")>>) => Score = 70

\* one test at exactly twice the expected 22,200 miles: 5 points, not 10
C13_Witness ==
    /\ pc = "analyzed"
    /\ Len(mot_tests) = 1
    /\ LatestMiles(Seen) = 44400
    /\ ExpectedMileageDeduction10(Seen) = 50
    /\ Score = 70

\* two tests four years apart, the latest at exactly 1.5 times the expected
\* 51,800 miles: no deduction
C13_WitnessAtOneAndHalf ==
    /\ pc = "analyzed"
    /\ Len(mot_tests) = 2
    /\ Age1461(Seen) = 7 * 1461
    /\ LatestMiles(Seen) = 77700
    /\ ExpectedMileageDeduction10(Seen) = 0
    /\ Score = 55

\* two tests four years apart, the latest one mile above twice the expected
\* mileage: 10 points
C13_WitnessAboveTwo ==
    /\ pc = "analyzed"
    /\ Len(mot_tests) = 2
    /\ Age1461(Seen) = 7 * 1461
    /\ LatestMiles(Seen) = 103601
    /\ ExpectedMileageDeduction10(Seen) = 100
    /\ Score = 45

\* the number of Advisory defects of a test
Advisories(t) ==
    Cardinality({j \in 1..Len(DefectsOf(t)) :
                    DefectsOf(t)[j].type \in {"ADVISORY", "advisory"}})

\* the adjustment of the claim in tenths
ExpectedTrend10(S) ==
    IF Len(S) < 3 THEN 0
    ELSE LET a == Advisories(S[Len(S) - 2])
             b == Advisories(S[Len(S) - 1])
             c == Advisories(S[Len(S)])
         IN  IF a < b /\ b < c THEN -50
             ELSE IF a > b /\ b > c THEN 30
             ELSE 0

\* C14: the advisory trend is applied only to histories of three or more
\* tests; with a, b, c the Advisory counts of the last three tests in order,
\* the score loses 5 when a < b < c, gains 3 when a > b > c, and is unchanged
\* otherwise (any equality included, and every history of one or two tests).
C14_AdvisoryTrend ==
    (ScoreDone /\ mot_tests # <<>>) =>
        LET S == Seen
        IN  Score \in ScoresFrom(1000 + DefectDeduction10(S, 1) - Failures(S) * 80
                                 + MileageDeduction10(S) + ExpectedTrend10(S), S)

\* advisory counts 0, 1, 2 on the last three of four tests: 5 points lost
C14_Witness ==
    /\ pc = "analyzed"
    /\ Len(mot_tests) = 4
    /\ LET S == Seen
       IN  /\ Advisories(S[2]) = 0 /\ Advisories(S[3]) = 1 /\ Advisories(S[4]) = 2
           /\ ExpectedTrend10(S) = -50
           /\ Score \in ScoresFrom(RawScore10(S), S)
           /\ RawScore10(S) = 1000 + DefectDeduction10(S, 1) - Failures(S) * 80
                              + MileageDeduction10(S) - 50

\* advisory counts 2, 1, 0: 3 points gained
C14_WitnessImproving ==
    /\ pc = "analyzed"
    /\ Len(mot_tests) = 3
    /\ LET S == Seen
       IN  /\ Advisories(S[1]) = 2 /\ Advisories(S[2]) = 1 /\ Advisories(S[3]) = 0
           /\ ExpectedTrend10(S) = 30
           /\ RawScore10(S) = 1000 + DefectDeduction10(S, 1) - Failures(S) * 80
                              + MileageDeduction10(S) + 30

\* two tests with advisory counts 1 and 2: no adjustment
C14_WitnessTwoTests ==
    /\ pc = "analyzed"
    /\ Len(mot_tests) = 2
    /\ LET S == Seen
       IN  /\ Advisories(S[1]) = 1 /\ Advisories(S[2]) = 2
           /\ RawScore10(S) = 1000 - 24 - 60 + MileageDeduction10(S)

PatternsDone == pc \in {"analyzed", "patterns"}

\* every defect of the history, test by test
RECURSIVE AllDefects(_)
AllDefects(S) ==
    IF S = <<>> THEN <<>> ELSE DefectsOf(Head(S)) \o AllDefects(Tail(S))

\* the keywords in the order of the claim
Keywords ==
    <<"brake", "tyre", "suspension", "lighting", "exhaust", "steering",
      "corrosion", "rust", "emission", "windscreen", "seatbelt", "horn",
      "mirror">>

KeywordChars(name) ==
    Categories[CHOOSE k \in 1..Len(Categories) : Categories[k].name = name].chars

\* the keyword occurs in the text of the defect, in any letter case
Mentions(d, name) == Contains(KeywordChars(name), LowerChars(d.text))

\* the defects of D whose text mentions the keyword
Mentioning(D, name) == {n \in 1..Len(D) : Mentions(D[n], name)}

\* C15: every emitted pattern has occurrences >= 2, concern_level high
\* exactly when occurrences >= 4 and medium exactly when occurrences is 2 or
\* 3, never low; a category that fewer than 2 defects match is not emitted.
C15_PatternsFromTwoOccurrences ==
    PatternsDone =>
        LET D == AllDefects(Seen)
            P == failure_patterns
        IN  \A i \in 1..Len(P) :
                /\ P[i].occurrences >= 2
                /\ P[i].concern_level = "high" <=> P[i].occurrences >= 4
                /\ P[i].concern_level = "medium" <=> P[i].occurrences \in {2, 3}
                /\ P[i].concern_level # "low"
                /\ Cardinality(Mentioning(D, P[i].category)) >= 2

\* brake tallied four times (high) and tyre twice (medium), horn once and
\* not emitted
C15_Witness ==
    /\ pc = "analyzed"
    /\ Len(failure_patterns) = 2
    /\ failure_patterns[1] =
           [category |-> "brake", occurrences |-> 4, concern_level |-> "high"]
    /\ failure_patterns[2] =
           [category |-> "tyre", occurrences |-> 2, concern_level |-> "medium"]
    /\ Cardinality(Mentioning(AllDefects(Seen), "horn")) = 1

\* brake tallied three times: medium
C15_WitnessThree ==
    /\ pc = "analyzed"
    /\ failure_patterns =
           <<[category |-> "brake", occurrences |-> 3, concern_level |-> "medium"]>>

\* the defect is tallied under the k-th keyword: the first of the list its
\* text mentions
TalliedUnder(d, k) ==
    /\ Mentions(d, Keywords[k])
    /\ \A j \in 1..(k - 1) : ~Mentions(d, Keywords[j])

TallyOf(D, k) == Cardinality({n \in 1..Len(D) : TalliedUnder(D[n], k)})

RECURSIVE SumOccurrences(_)
SumOccurrences(P) ==
    IF P = <<>> THEN 0 ELSE Head(P).occurrences + SumOccurrences(Tail(P))

\* C16: each defect is tallied under exactly the first keyword of the list
\* that occurs, case-insensitively, in its text, and under no other; a
\* defect without keyword changes no tally.  The occurrences of every
\* emitted category are the tally of that rule, every category the rule
\* tallies twice or more is emitted once, and the occurrences never sum to
\* more than the number of defects.
C16_FirstKeywordTallied ==
    PatternsDone =>
        LET D == AllDefects(Seen)
            P == failure_patterns
        IN  /\ \A i \in 1..Len(P) :
                   \E k \in 1..Len(Keywords) :
                       /\ Keywords[k] = P[i].category
                       /\ P[i].occurrences = TallyOf(D, k)
            /\ \A k \in 1..Len(Keywords) :
                   TallyOf(D, k) >= 2 =>
                       Cardinality({i \in 1..Len(P) : P[i].category = Keywords[k]}) = 1
            /\ SumOccurrences(P) <= Len(D)

\* "Tyre rust" twice and "rusty BRAKE" with "Brake pad": tyre and brake are
\* tallied twice, rust (mentioned three times) is not tallied at all
C16_Witness ==
    /\ pc = "analyzed"
    /\ LET D == AllDefects(Seen)
       IN  /\ Cardinality(Mentioning(D, "rust")) = 3
           /\ Cardinality(Mentioning(D, "tyre")) = 2
           /\ Cardinality(Mentioning(D, "brake")) = 2
           /\ \E n \in 1..Len(D) : D[n].text = TextRustyBrake
    /\ Len(failure_patterns) = 2
    /\ \A i \in 1..2 : failure_patterns[i].category \in {"tyre", "brake"}
    /\ \A i \in 1..2 : failure_patterns[i].occurrences = 2

UlezDone == pc = "ulez"

\* the registry record of the call
Vehicle == vehicle_data[1]

\* the index of a zone in the zone table
ZoneIndex(zone_id) == CHOOSE k \in 1..Len(ZONES) : ZONES[k].zone_id = zone_id

\* the result of the zone, for a result with zone results
ZoneResult(zone_id) == ulez_result.zones[ZoneIndex(zone_id)]

\* the fuel type is ELECTRICITY, ELECTRIC or HYDROGEN in any letter case
ElectricOrHydrogen(fuel) ==
    LowerChars(fuel) \in
        {<<"e", "l", "e", "c", "t", "r", "i", "c", "i", "t", "y">>,
         <<"e", "l", "e", "c", "t", "r", "i", "c">>,
         <<"h", "y", "d", "r", "o", "g", "e", "n">>}

\* C17: for fuel type ELECTRICITY, ELECTRIC or HYDROGEN in any letter case
\* every one of the 14 zones is compliant, the Oxford zero-emission zone
\* included, compliant is true, compliant_zones is 14 and
\* non_compliant_zones is 0, whatever the Euro label and the year are.
C17_ElectricExemptEverywhere ==
    (UlezDone /\ vehicle_data # <<>> /\ ElectricOrHydrogen(Vehicle.fuelType)) =>
        /\ Len(ulez_result.zones) = 14
        /\ \A k \in 1..14 : ulez_result.zones[k] = TRUE
        /\ ZoneResult("oxford_zez") = TRUE
        /\ ulez_result.compliant = <<TRUE>>
        /\ ulez_result.compliant_zones = <<14>>
        /\ ulez_result.non_compliant_zones = <<0>>

\* "Electric" with a label reading Euro 4 and a manufacture year of 1996
C17_Witness ==
    /\ UlezDone
    /\ vehicle_data # <<>>
    /\ Vehicle.fuelType = FuelElectric
    /\ Vehicle.euroStatus = <<"E", "4">>
    /\ Vehicle.yearOfManufacture = 1996
    /\ ulez_result.status = "exempt"
    /\ ulez_result.compliant_zones = <<14>>

\* the call resolved a Euro standard for a vehicle that is not exempt
Resolved ==
    /\ UlezDone
    /\ vehicle_data # <<>>
    /\ ~ElectricOrHydrogen(Vehicle.fuelType)
    /\ ulez_result.euro_standard # <<>>

\* the zones of the table that affect private cars
CarAffecting == {k \in 1..Len(ZONES) : ZONES[k].cars_affected}

PetrolEuro4 ==
    /\ UpperChars(Vehicle.fuelType) = <<"P", "E", "T", "R", "O", "L">>
    /\ ulez_result.euro_standard = <<4>>

ClassDAndScottish ==
    {"london_ulez", "birmingham_caz", "bristol_caz",
     "glasgow_lez", "edinburgh_lez", "aberdeen_lez", "dundee_lez"}

\* C18: for a non-exempt vehicle with a resolved Euro standard, compliant is
\* the conjunction of the zone results over exactly the zones affecting
\* cars and non_compliant_zones counts the non-compliant ones among them;
\* petrol Euro 4 is compliant in London ULEZ, the Class D zones and the four
\* Scottish zones, non-compliant in the zero-emission zone, so compliant is
\* false and non_compliant_zones is 1.
C18_AggregateOverCarZones ==
    Resolved =>
        /\ ulez_result.compliant = <<\A k \in CarAffecting : ulez_result.zones[k]>>
        /\ ulez_result.non_compliant_zones =
               <<Cardinality({k \in CarAffecting : ~ulez_result.zones[k]})>>
        /\ PetrolEuro4 =>
               /\ \A z \in ClassDAndScottish : ZoneResult(z) = TRUE
               /\ ZoneResult("oxford_zez") = FALSE
               /\ ulez_result.compliant = <<FALSE>>
               /\ ulez_result.non_compliant_zones = <<1>>

\* petrol with a label whose first digit is 4
C18_Witness ==
    /\ Resolved
    /\ Vehicle.fuelType = FuelPetrol
    /\ Vehicle.euroStatus = <<"E", "4">>
    /\ PetrolEuro4
    /\ ulez_result.status = "non_compliant"
    /\ ulez_result.non_compliant_zones = <<1>>

\* the fuel is DIESEL or HEAVY OIL, or its text contains DIESEL (the fuel
\* text is read in upper case)
DieselCategory(fuel) ==
    LET F == UpperChars(fuel)
    IN  \/ F = <<"D", "I", "E", "S", "E", "L">>
        \/ F = <<"H", "E", "A", "V", "Y", " ", "O", "I", "L">>
        \/ Contains(<<"D", "I", "E", "S", "E", "L">>, F)

\* C19: for a non-exempt vehicle with resolved Euro standard e, a zone that
\* does not affect cars is compliant, the zero-emission zone is not, and
\* every other zone affecting cars is compliant iff e >= 6 for a fuel of the
\* diesel category (DIESEL, HEAVY OIL, a text containing DIESEL) and iff
\* e >= 4 for every other fuel.
C19_PerZoneRule ==
    Resolved =>
        LET e == ulez_result.euro_standard[1]
        IN  \A k \in 1..Len(ZONES) :
                ulez_result.zones[k] =
                    IF ~ZONES[k].cars_affected THEN TRUE
                    ELSE IF ZONES[k].zone_id = "oxford_zez" THEN FALSE
                    ELSE IF DieselCategory(Vehicle.fuelType) THEN e >= 6
                    ELSE e >= 4

\* heavy oil at Euro 5: non-compliant in London ULEZ, compliant in London LEZ
C19_Witness ==
    /\ Resolved
    /\ Vehicle.fuelType = FuelHeavyOil
    /\ ulez_result.euro_standard = <<5>>
    /\ ZoneResult("london_ulez") = FALSE
    /\ ZoneResult("london_lez") = TRUE
    /\ ZoneResult("oxford_zez") = FALSE

\* a hybrid at Euro 4: the petrol threshold applies
C19_WitnessHybrid ==
    /\ Resolved
    /\ Vehicle.fuelType = FuelHybridElectric
    /\ ulez_result.euro_standard = <<4>>
    /\ ZoneResult("london_ulez") = TRUE
    /\ ZoneResult("glasgow_lez") = TRUE

\* the digits of a label, in order
LabelDigits(label) == SelectSeq(label, IsDigit)

\* the estimate of the claim
YearEstimate(year, fuel) ==
    IF DieselCategory(fuel)
    THEN CASE year >= 2015 -> 6
           [] year >= 2009 /\ year < 2015 -> 5
           [] year >= 2006 /\ year < 2009 -> 4
           [] year >= 2001 /\ year < 2006 -> 3
           [] OTHER -> 2
    ELSE CASE year >= 2011 -> 6
           [] year >= 2006 /\ year < 2011 -> 5
           [] year >= 2001 /\ year < 2006 -> 4
           [] year >= 1997 /\ year < 2001 -> 3
           [] OTHER -> 2

\* C20: for a non-exempt vehicle the Euro standard is the first digit of the
\* label when it has one; otherwise it is estimated from the manufacture
\* year (diesel: 2015 -> 6, 2009 -> 5, 2006 -> 4, 2001 -> 3, else 2; other
\* fuels: 2011 -> 6, 2006 -> 5, 2001 -> 4, 1997 -> 3, else 2) and
\* euro_inferred is true; without digit and year the status is unknown,
\* compliant is null and there are no zone results.  A diesel of 2014 is
\* Euro 5 and non-compliant with London ULEZ, one of 2016 is Euro 6 and
\* compliant with it.
C20_EuroResolution ==
    (UlezDone /\ vehicle_data # <<>> /\ ~ElectricOrHydrogen(Vehicle.fuelType)) =>
        LET digits == LabelDigits(Vehicle.euroStatus)
            year == Vehicle.yearOfManufacture
        IN  /\ digits # <<>> =>
                   ulez_result.euro_standard = <<DigitValue(digits[1])>>
            /\ (digits = <<>> /\ year # 0) =>
                   /\ ulez_result.euro_standard = <<YearEstimate(year, Vehicle.fuelType)>>
                   /\ ulez_result.euro_inferred = <<TRUE>>
            /\ (digits = <<>> /\ year = 0) =>
                   /\ ulez_result.status = "unknown"
                   /\ ulez_result.compliant = <<>>
                   /\ ulez_result.zones = <<>>
            /\ (digits = <<>> /\ Vehicle.fuelType = FuelDiesel /\ year = 2014) =>
                   /\ ulez_result.euro_standard = <<5>>
                   /\ ZoneResult("london_ulez") = FALSE
            /\ (digits = <<>> /\ Vehicle.fuelType = FuelDiesel /\ year = 2016) =>
                   /\ ulez_result.euro_standard = <<6>>
                   /\ ZoneResult("london_ulez") = TRUE

\* a label with the digits 4 and 6 in this order: Euro 4
C20_Witness ==
    /\ UlezDone
    /\ vehicle_data # <<>>
    /\ Vehicle.fuelType = FuelDiesel
    /\ Vehicle.euroStatus = <<"4", "6">>
    /\ Vehicle.yearOfManufacture = 2016
    /\ ulez_result.euro_standard = <<4>>
    /\ ZoneResult("london_ulez") = FALSE

\* a diesel of 2014 whose label has no digit: Euro 5, estimated
C20_WitnessDiesel2014 ==
    /\ UlezDone
    /\ vehicle_data # <<>>
    /\ Vehicle.fuelType = FuelDiesel
    /\ Vehicle.euroStatus = <<"E">>
    /\ Vehicle.yearOfManufacture = 2014
    /\ ulez_result.euro_standard = <<5>>
    /\ ulez_result.euro_inferred = <<TRUE>>
    /\ ZoneResult("london_ulez") = FALSE

\* no digit and no year: unknown
C20_WitnessUnknown ==
    /\ UlezDone
    /\ vehicle_data # <<>>
    /\ Vehicle.fuelType = FuelPetrol
    /\ LabelDigits(Vehicle.euroStatus) = <<>>
    /\ Vehicle.yearOfManufacture = 0
    /\ ulez_result.status = "unknown"
    /\ ulez_result.zones = <<>>

(***************************************************************************)
(* The verdict and the flag list agree.                                    *)
(***************************************************************************)
\* the flags the two pair loops give for the pair (R[i], R[i+1]) alone
PairDropFlags(R, i) == DropFlags(<<R[i], R[i + 1]>>, 1)
PairJumpFlags(R, i) == JumpFlags(<<R[i], R[i + 1]>>, 1)

\* C29: clocked is true exactly when risk_level is high, and that exactly
\* when the flag list holds a mileage_drop flag; every mileage_drop flag has
\* severity high and a drop_amount of at least 1; no consecutive pair of
\* readings yields both a mileage_drop and an improbable_jump flag.
C29_VerdictAgreesWithFlags ==
    ClockingDone =>
        LET R == SeenReadings
            F == Flags
            drops == FlagsOfType(F, "mileage_drop")
            jumps == FlagsOfType(F, "improbable_jump")
        IN  /\ clocking_analysis.clocked = (clocking_analysis.risk_level = "high")
            /\ (clocking_analysis.risk_level = "high") = (drops # {})
            /\ \A k \in drops :
                   F[k].severity = "high" /\ F[k].drop_amount >= 1
            /\ \A i \in PairsOf(R) :
                   PairDropFlags(R, i) = <<>> \/ PairJumpFlags(R, i) = <<>>
            /\ Cardinality(drops) + Cardinality(jumps) <= Cardinality(PairsOf(R))
            /\ Cardinality(drops)
                 = Cardinality({i \in PairsOf(R) : PairDropFlags(R, i) # <<>>})
            /\ Cardinality(jumps)
                 = Cardinality({i \in PairsOf(R) : PairJumpFlags(R, i) # <<>>})

\* a history whose first pair drops and whose second pair jumps: clocked,
\* high risk, one flag of each type
C29_Witness ==
    /\ pc = "analyzed"
    /\ clocking_analysis.clocked
    /\ clocking_analysis.risk_level = "high"
    /\ Cardinality(FlagsOfType(Flags, "mileage_drop")) = 1
    /\ Cardinality(FlagsOfType(Flags, "improbable_jump")) = 1

\* a history with two improbable jumps and no drop: medium risk, not clocked
C29_WitnessNotClocked ==
    /\ pc = "detected"
    /\ ~clocking_analysis.clocked
    /\ clocking_analysis.risk_level = "medium"
    /\ FlagsOfType(Flags, "mileage_drop") = {}
    /\ Cardinality(FlagsOfType(Flags, "improbable_jump")) = 2

(***************************************************************************)
(* The charge summary.                                                     *)
(***************************************************************************)
\* the zones affecting cars in which the result is non-compliant
NonCompliantCarZones(zones) == {k \in CarAffecting : ~zones[k]}

ChargingZones(zones, type) ==
    {k \in NonCompliantCarZones(zones) : ZONES[k].type = type}

\* the parts of daily_charge of the given kind
ChargeParts(part) ==
    {n \in 1..Len(ulez_result.daily_charge) :
        ulez_result.daily_charge[n].part = part}

\* C24: for a non-exempt vehicle that is non-compliant in a zone affecting
\* cars, daily_charge names the single highest daily amount among the
\* non-compliant daily-charge zones (London ULEZ at 12.50 whenever London
\* ULEZ is non-compliant, otherwise the Oxford zero-emission zone at 4.00)
\* and mentions the penalty regime exactly when a penalty-type (Scottish)
\* zone is non-compliant; daily_charge is None when no zone charges the
\* vehicle.
C24_DailyChargeSummary ==
    UlezDone =>
        IF Resolved /\ NonCompliantCarZones(ulez_result.zones) # {}
        THEN LET zones == ulez_result.zones
                 daily == ChargingZones(zones, "daily_charge")
                 penalty == ChargingZones(zones, "penalty")
                 named == ChargeParts("per day")
             IN  /\ ulez_result.charges_apply_zones
                      = <<Cardinality(NonCompliantCarZones(zones))>>
                 /\ daily # {}
                 /\ Cardinality(named) = 1
                 /\ \A n \in named :
                        LET part == ulez_result.daily_charge[n]
                        IN  /\ n = 1
                            /\ \A k \in daily : ZONES[k].charge_amount <= part.amount
                            /\ \E k \in daily :
                                   /\ ZONES[k].charge_amount = part.amount
                                   /\ ZONES[k].name = part.zone
                            /\ IF ~ZoneResult("london_ulez")
                               THEN part.amount = 1250 /\ part.zone = "London ULEZ"
                               ELSE part.amount = 400 /\ part.zone = "Oxford ZEZ"
                 /\ (ChargeParts("penalty") # {}) = (penalty # {})
                 /\ Cardinality(ChargeParts("penalty")) <= 1
                 /\ Len(ulez_result.daily_charge)
                      = Cardinality(named) + Cardinality(ChargeParts("penalty"))
        ELSE ulez_result.daily_charge = <<>>

\* diesel with a label reading Euro 5: London ULEZ, the Class D zones, the
\* Scottish zones and the zero-emission zone all charge; the summary names
\* London ULEZ at 12.50 and the penalty
C24_Witness ==
    /\ Resolved
    /\ Vehicle.fuelType = FuelDiesel
    /\ ulez_result.euro_standard = <<5>>
    /\ ~ZoneResult("london_ulez") /\ ~ZoneResult("glasgow_lez")
    /\ Len(ulez_result.daily_charge) = 2
    /\ ulez_result.daily_charge[1].amount = 1250
    /\ ulez_result.daily_charge[1].zone = "London ULEZ"
    /\ ulez_result.daily_charge[2].part = "penalty"

\* petrol Euro 6: only the zero-emission zone charges, 4.00 and no penalty
C24_WitnessZezOnly ==
    /\ Resolved
    /\ Vehicle.fuelType = FuelPetrol
    /\ ulez_result.euro_standard = <<6>>
    /\ NonCompliantCarZones(ulez_result.zones) = {ZoneIndex("oxford_zez")}
    /\ Len(ulez_result.daily_charge) = 1
    /\ ulez_result.daily_charge[1].amount = 400
    /\ ulez_result.daily_charge[1].zone = "Oxford ZEZ"

\* an electric vehicle: no zone charges, no summary
C24_WitnessNone ==
    /\ UlezDone
    /\ ulez_result.status = "exempt"
    /\ ulez_result.daily_charge = <<>>

(***************************************************************************)
(* Cap, round, clamp.                                                      *)
(***************************************************************************)
\* the summed score after the history-length cap, in tenths
CappedSum10(S) ==
    LET raw10 == RawScore10(S)
    IN  IF Len(S) = 1 THEN Min(raw10, 850)
        ELSE IF Len(S) = 2 THEN Min(raw10, 920)
        ELSE raw10

\* the float holding the capped sum is that decimal value exactly: the cap
\* took effect (85.0 and 92.0 are exact) or no term of the sum is inexact
SumIsExact(S) == CappedSum10(S) # RawScore10(S) \/ ~HasInexactTerm(S)

\* n is an integer nearest to x10 tenths; on an exact half, the even one
NearestHalfEven(n, x10, exact) ==
    /\ 10 * n - x10 \in -5..5
    /\ (exact /\ Abs(10 * n - x10) = 5) => n % 2 = 0

\* C26: the final score is the summed score with the history-length cap
\* applied, then rounded to the nearest integer with an exact half going to
\* the even neighbour (92.5 gives 92, 87.5 gives 88), then clamped to
\* [0,100], in that order.
C26_CapRoundClamp ==
    (ScoreDone /\ has_data /\ mot_tests # <<>>) =>
        LET S == Seen
            capped10 == CappedSum10(S)
            exact == SumIsExact(S)
        IN  /\ \E n \in ((capped10 \div 10) - 1)..((capped10 \div 10) + 1) :
                   /\ NearestHalfEven(n, capped10, exact)
                   /\ Score = Max(0, Min(100, n))
            /\ (exact /\ capped10 = 925) => Score = 92
            /\ (exact /\ capped10 = 875) => Score = 88

\* one Dangerous defect on the oldest of four tests: 100 - 7.5 = 92.5 gives 92
C26_Witness ==
    /\ pc = "analyzed"
    /\ Len(Seen) = 4
    /\ CappedSum10(Seen) = 925
    /\ SumIsExact(Seen)
    /\ Score = 92

\* a failed oldest test of four with one Major defect: 100 - 4.5 - 8 = 87.5
\* gives 88
C26_WitnessHalfUp ==
    /\ pc = "analyzed"
    /\ Len(Seen) = 4
    /\ CappedSum10(Seen) = 875
    /\ SumIsExact(Seen)
    /\ Score = 88

\* a sum below zero is clamped after rounding
C26_WitnessClamped ==
    /\ ScoreDone
    /\ mot_tests # <<>>
    /\ CappedSum10(Seen) < -5
    /\ Score = 0

\* a single clean test: the cap brings 100 down to 85 before rounding
C26_WitnessCapped ==
    /\ ScoreDone
    /\ Len(Seen) = 1
    /\ RawScore10(Seen) = 1000
    /\ Score = 85

(***************************************************************************)
(* One more defect.                                                        *)
(***************************************************************************)
AddedTypes == {"DANGEROUS", "MAJOR", "MINOR", "ADVISORY", "advisory", "PRS"}

\* the history S with one more defect of the given type on test i, in the
\* list the test is scored on: defects, or rfrAndComments when the test
\* carries its defects there
AddDefect(S, i, type) ==
    IF S[i].defects = <<>> /\ S[i].rfrAndComments # <<>>
    THEN [S EXCEPT ![i].rfrAndComments = Append(@, Defect(type))]
    ELSE [S EXCEPT ![i].defects = Append(@, Defect(type))]

\* the score of the longer history is not above the given score; a defect of
\* an unknown type adds 0.0 to the sum, which leaves the float as it is
NotAbove(S, i, type, score) ==
    LET after == ConditionScores(AddDefect(S, i, type))
    IN  IF SeverityPoints(type) = 0 THEN score \in after
        ELSE \A s \in after : s <= score

\* the original wording of C30: adding one more defect of any severity to
\* any test never increases the score
C30_Original ==
    (ScoreDone /\ has_data /\ mot_tests # <<>>) =>
        LET S == Seen
            score == Score
        IN  \A i \in 1..Len(S) : \A type \in AddedTypes :
                NotAbove(S, i, type, score)

\* C30: adding one more defect to any test never increases the condition
\* score, unless the added defect is an Advisory that changes the advisory
\* trend of the last three tests.
C30_MoreDefectsNeverScoreHigher ==
    (ScoreDone /\ has_data /\ mot_tests # <<>>) =>
        LET S == Seen
            score == Score
            trend == ExpectedTrend10(S)
        IN  \A i \in 1..Len(S) : \A type \in AddedTypes :
                ExpectedTrend10(AddDefect(S, i, type)) = trend
                    => NotAbove(S, i, type, score)

\* a history of four tests on which an added Major defect, and an Advisory
\* added to the oldest test, each lower the score
C30_Witness ==
    /\ pc = "analyzed"
    /\ LET S == Seen
           score == Score
       IN  /\ Len(S) = 4
           /\ \A s \in ConditionScores(AddDefect(S, 4, "MAJOR")) : s < score
           /\ ExpectedTrend10(AddDefect(S, 1, "ADVISORY")) = ExpectedTrend10(S)
           /\ \A s \in ConditionScores(AddDefect(S, 1, "ADVISORY")) : s < score

\* advisory counts 1, 1, 0 on the last three tests: an Advisory added to the
\* first of them makes the trend improving and the score higher
C30_WitnessTrend ==
    /\ pc = "analyzed"
    /\ LET S == Seen
           score == Score
       IN  /\ Len(S) = 3
           /\ Advisories(S[1]) = 1 /\ Advisories(S[2]) = 1 /\ Advisories(S[3]) = 0
           /\ \A s \in ConditionScores(AddDefect(S, 1, "ADVISORY")) : s > score

(***************************************************************************)
(* The order in which the caller lists the tests.                          *)
(***************************************************************************)
\* the sequences holding the elements of s in every order
RECURSIVE OrdersOf(_)
OrdersOf(s) ==
    IF s = <<>> THEN {<<>>}
    ELSE UNION {{<<s[i]>> \o p :
                    p \in OrdersOf(SubSeq(s, 1, i - 1)
                                       \o SubSeq(s, i + 1, Len(s)))} :
                i \in 1..Len(s)}

\* C23: for every permutation of the same list of test records, analyze()
\* returns the same clocking analysis, condition score, mileage timeline and
\* failure patterns.
C23_OrderOfTestsIrrelevant ==
    (pc = "analyzed" /\ has_data /\ mot_tests # <<>>) =>
        \A p \in OrdersOf(mot_tests) :
            LET sorted_tests == SortedTests(p)
            IN  /\ DetectClocking(sorted_tests) = clocking_analysis
                /\ condition_score[1] \in ConditionScores(sorted_tests)
                /\ BuildMileageTimeline(sorted_tests) = mileage_timeline
                /\ AnalyzeFailurePatterns(sorted_tests) = failure_patterns

(***************************************************************************)
(* Malformed records.                                                      *)
(***************************************************************************)
\* C21: analyze() never raises for malformed domain data (records whose
\* completedDate, odometerValue, testResult or defect type is missing, null
\* or unparsable): every call returns a result.
C21_AnalyzeNeverRaises == pc # "raised"

(***************************************************************************)
(* The stats.                                                              *)
(***************************************************************************)
StatsDone == pc = "stats"

\* C22: analyze(), calculate_ulez_compliance() and calculate_vehicle_stats()
\* are deterministic functions of their arguments, and the only time
\* dependence of the stats is a 'today' value the caller passes in: a call
\* of calculate_vehicle_stats repeated with the same arguments returns the
\* same result.
C22_SameArgumentsSameResult ==
    [][pc = "stats" => vehicle_stats' = vehicle_stats]_vars

\* first and last reading of the timeline parse and the last is later
PositiveSpan(tl) ==
    /\ Len(tl) >= 2
    /\ Parses(tl[1].date) /\ Parses(tl[Len(tl)].date)
    /\ Ordinal(tl[Len(tl)].date) > Ordinal(tl[1].date)

SpanDays(tl) == Ordinal(tl[Len(tl)].date) - Ordinal(tl[1].date)
TotalMiles(tl) == tl[Len(tl)].miles - tl[1].miles

\* the average is below the number of miles a year:
\* total / (days / 365.25) < miles
AverageBelow(tl, miles) == TotalMiles(tl) * 1461 < miles * 4 * SpanDays(tl)

\* the band of the claim
ExpectedAssessment(tl) ==
    IF AverageBelow(tl, 5000) THEN "Below average mileage"
    ELSE IF AverageBelow(tl, 10000) THEN "Average mileage"
    ELSE IF AverageBelow(tl, 15000) THEN "Above average mileage"
    ELSE "High mileage"

\* n is an integer nearest to total / (days / 365.25)
NearestToAverage(n, tl) ==
    2 * Abs(n * 4 * SpanDays(tl) - TotalMiles(tl) * 1461) <= 4 * SpanDays(tl)

\* C27: calculate_vehicle_stats reports estimated_annual_mileage, the
\* integer nearest to (last miles - first miles) / (days / 365.25), exactly
\* when the timeline has at least two readings and a positive first-to-last
\* span, and assigns mileage_assessment by the unrounded average: below
\* average under 5,000, average from 5,000 to under 10,000, above average
\* from 10,000 to under 15,000, high from 15,000; otherwise none of the
\* mileage keys is present.
C27_AnnualMileage ==
    StatsDone =>
        LET tl == mileage_timeline
            stats == vehicle_stats
        IN  IF PositiveSpan(tl)
            THEN /\ stats.estimated_annual_mileage # <<>>
                 /\ NearestToAverage(stats.estimated_annual_mileage[1], tl)
                 /\ stats.mileage_assessment = <<ExpectedAssessment(tl)>>
                 /\ stats.total_recorded_mileage = <<tl[Len(tl)].miles>>
                 /\ stats.mileage_readings_count = <<Len(tl)>>
            ELSE /\ stats.estimated_annual_mileage = <<>>
                 /\ stats.mileage_assessment = <<>>
                 /\ stats.total_recorded_mileage = <<>>
                 /\ stats.mileage_readings_count = <<>>

\* 19,999 miles in four years: 4,999.75 a year is reported as 5000 and
\* assessed as below average
C27_Witness ==
    /\ StatsDone
    /\ PositiveSpan(mileage_timeline)
    /\ TotalMiles(mileage_timeline) = 19999
    /\ SpanDays(mileage_timeline) = 1461
    /\ vehicle_stats.estimated_annual_mileage = <<5000>>
    /\ vehicle_stats.mileage_assessment = <<"Below average mileage">>

\* 60,000 miles in four years: exactly 15,000 a year is high mileage
C27_WitnessHigh ==
    /\ StatsDone
    /\ PositiveSpan(mileage_timeline)
    /\ TotalMiles(mileage_timeline) = 60000
    /\ vehicle_stats.estimated_annual_mileage = <<15000>>
    /\ vehicle_stats.mileage_assessment = <<"High mileage">>

\* two readings on the same day: no mileage keys
C27_WitnessNoSpan ==
    /\ StatsDone
    /\ Len(mileage_timeline) = 2
    /\ mileage_timeline[1].date = mileage_timeline[2].date
    /\ Parses(mileage_timeline[1].date)
    /\ vehicle_stats.estimated_annual_mileage = <<>>
    /\ vehicle_stats.mileage_assessment = <<>>

\* a single reading: no mileage keys
C27_WitnessOneReading ==
    /\ StatsDone
    /\ Len(mileage_timeline) = 1
    /\ vehicle_stats.estimated_annual_mileage = <<>>

(***************************************************************************)
(* run_free_check on a petrol Euro 6 car with three normal tests.          *)
(***************************************************************************)
\* the free check has returned its response
Checked == pc = "checked"

Response == response[1]

\* both fetches returned data: a petrol record with Euro status "Euro 6" and
\* the three passed tests with rising mileage, in any order
PetrolEuroSixThreeTests ==
    /\ dvla_fetch.kind = "data"
    /\ UpperChars(dvla_fetch.data[1].fuelType) = FuelPetrol
    /\ dvla_fetch.data[1].euroStatus = EuroSix
    /\ mot_fetch.kind = "data"
    /\ Len(mot_fetch.data[1]) = 3
    /\ SortedTests(mot_fetch.data[1]) = MOCK_MOT_RESPONSE

\* the zones of the response in which the vehicle is not compliant
ResponseNonCompliantZones ==
    {ZONES[k].zone_id : k \in {j \in 1..Len(ZONES) :
                                  ~Response.ulez_compliance.zones[j]}}

C25_WitnessNewestFirst ==
    /\ Checked
    /\ PetrolEuroSixThreeTests
    /\ mot_fetch.data[1] # MOCK_MOT_RESPONSE
    /\ Response.mileage_timeline[1].miles = 25000
    /\ Response.mileage_timeline[3].miles = 39000

(***************************************************************************)
(* run_free_check when a fetch fails.                                      *)
(***************************************************************************)
InSources(name) ==
    \E i \in 1..Len(Response.data_sources) : Response.data_sources[i] = name

RegistryFetched == dvla_fetch.kind = "data"

MotFetched == mot_fetch.kind = "data"

\* both fetches yield nothing and the cleaned registration is a demo one
DemoSubstituted ==
    /\ ~RegistryFetched
    /\ ~MotFetched
    /\ CleanReg(registration) \in DOMAIN DEMO_VEHICLES

\* the demo entry of the registration
DemoEntry == DEMO_VEHICLES[CleanReg(registration)]

\* the data the check has at hand: of the fetch, or of the demo entry
RegistryObtained == RegistryFetched \/ DemoSubstituted

MotObtained == MotFetched \/ DemoSubstituted

\* C28: the two fetches of run_free_check are isolated: when one raises or
\* returns nothing the other's data is still analysed and returned;
\* data_sources names the DVLA VES API exactly when registry data was
\* obtained and the DVSA MOT History API exactly when MOT data was obtained;
\* without registry data vehicle and ulez_compliance.compliant are null;
\* without MOT data mot_summary is null and the clocking risk_level is
\* unknown; demo data stands in only when both fetches yield nothing.
C28_FetchesIsolated ==
    Checked =>
        /\ InSources("DVLA VES API") <=> RegistryObtained
        /\ InSources("DVSA MOT History API") <=> MotObtained
        /\ ~RegistryObtained =>
              /\ Response.vehicle = <<>>
              /\ Response.ulez_compliance.compliant = <<>>
        /\ ~MotObtained =>
              /\ Response.mot_summary = <<>>
              /\ Response.clocking_analysis.risk_level = "unknown"
        /\ RegistryFetched =>
              /\ Response.vehicle = BuildVehicleIdentity(dvla_fetch.data)
              /\ Response.ulez_compliance =
                     CalculateUlezCompliance(dvla_fetch.data)
        /\ MotFetched =>
              LET tests == SortedTests(mot_fetch.data[1])
              IN  /\ Response.mot_summary # <<>>
                  /\ Response.mot_summary[1].total_tests = Len(tests)
                  /\ Response.mileage_timeline = BuildMileageTimeline(tests)
                  /\ tests # <<>> =>
                        Response.clocking_analysis = DetectClocking(tests)
        /\ DemoSubstituted =>
              /\ Response.vehicle = BuildVehicleIdentity(<<DemoEntry.dvla>>)
              /\ Response.mot_summary[1].total_tests = Len(DemoEntry.mot)

\* the registry fetch raised and the MOT fetch returned the three tests:
\* no vehicle, no zone verdict, the MOT summary and the timeline are there
C28_Witness ==
    /\ Checked
    /\ dvla_fetch.kind = "error"
    /\ mot_fetch.data = <<MOCK_MOT_RESPONSE>>
    /\ Response.vehicle = <<>>
    /\ Response.ulez_compliance.compliant = <<>>
    /\ Response.mot_summary[1].total_tests = 3
    /\ Len(Response.mileage_timeline) = 3
    /\ InSources("DVSA MOT History API")
    /\ ~InSources("DVLA VES API")

\* the MOT fetch returned nothing for a demo registration while the
\* registry fetch returned the mock record: no demo data, no MOT summary
C28_WitnessMotMissing ==
    /\ Checked
    /\ mot_fetch.kind = "none"
    /\ dvla_fetch.data = <<MOCK_DVLA_RESPONSE>>
    /\ CleanReg(registration) \in DOMAIN DEMO_VEHICLES
    /\ Response.mot_summary = <<>>
    /\ Response.clocking_analysis.risk_level = "unknown"
    /\ Response.vehicle # <<>>
    /\ Response.vehicle[1].year_of_manufacture = 2018
    /\ Response.ulez_compliance.compliant = <<FALSE>>
    /\ ~InSources("DVSA MOT History API")

\* both fetches failed for "demo 1": the demo entry DEMO1 is analysed
C28_WitnessDemo ==
    /\ Checked
    /\ dvla_fetch.kind = "error"
    /\ mot_fetch.kind = "none"
    /\ registration = <<"d", "e", "m", "o", " ", "1">>
    /\ Response.vehicle[1].year_of_manufacture = 2019
    /\ Response.mot_summary[1].total_tests = 4
    /\ InSources("DVLA VES API")
    /\ InSources("DVSA MOT History API")

\* both fetches failed for AB12CDE: nothing is reported
C28_WitnessNothing ==
    /\ Checked
    /\ dvla_fetch.kind = "error"
    /\ mot_fetch.kind = "error"
    /\ ~DemoSubstituted
    /\ Response.vehicle = <<>>
    /\ Response.mot_summary = <<>>
    /\ Response.vehicle_stats = <<>>
    /\ Response.data_sources = <<>>

====
